---- MODULE Spec2Model ----
(***************************************************************************)
(* Model of the factoring orchestration of the Qutrit-Emulator repository: *)
(* brain_factor_distributed.solve_distributed (partitioning into batches   *)
(* of chunks, engine run, output parsing, candidate verification), the     *)
(* instruction encoders, and the scripts that report factors.              *)
(*                                                                         *)
(* Python integers are unbounded.  The modulus is kept as a little-endian  *)
(* sequence of bytes (no leading zero byte) so that moduli beyond 2^31     *)
(* are computed exactly; every other quantity fits a machine integer       *)
(* within the bounds below.  Text is a sequence of one-character strings.  *)
(***************************************************************************)
EXTENDS Integers, Sequences, FiniteSets, TLC

(***************************************************************************)
(* Bounds of the model                                                     *)
(***************************************************************************)
\* longest engine output, in lines
MaxLines == 2

(***************************************************************************)
(* Arbitrary-precision helpers (Python int)                                *)
(***************************************************************************)
RECURSIVE FromInt(_)
\* the byte sequence of a non-negative machine integer
FromInt(i) == IF i = 0 THEN <<>> ELSE <<i % 256>> \o FromInt(i \div 256)

RECURSIVE Normalize(_)
\* drop the zero bytes at the most significant end
Normalize(b) ==
    IF b = <<>> THEN <<>>
    ELSE IF b[Len(b)] = 0 THEN Normalize(SubSeq(b, 1, Len(b) - 1)) ELSE b

RECURSIVE BigCmpFrom(_, _, _)
\* compare two numbers of equal length from byte k downwards: -1, 0 or 1
BigCmpFrom(a, b, k) ==
    IF k = 0 THEN 0
    ELSE IF a[k] < b[k] THEN -1
    ELSE IF a[k] > b[k] THEN 1
    ELSE BigCmpFrom(a, b, k - 1)

\* compare two normalized numbers: -1, 0 or 1
BigCmp(a, b) ==
    IF Len(a) < Len(b) THEN -1
    ELSE IF Len(a) > Len(b) THEN 1
    ELSE BigCmpFrom(a, b, Len(a))

RECURSIVE BigModFrom(_, _, _, _)
\* Horner remainder of the bytes k..1 of n, half a byte at a time, r the
\* remainder so far
BigModFrom(n, c, k, r) ==
    IF k = 0 THEN r
    ELSE BigModFrom(n, c, k - 1,
             (((r * 16 + (n[k] \div 16)) % c) * 16 + (n[k] % 16)) % c)

\* n % c for a machine integer 0 < c < 2^27
BigMod(n, c) == BigModFrom(n, c, Len(n), 0)

RECURSIVE BigDivFrom(_, _, _, _)
\* long division of the bytes k..1 of n by c, r the remainder so far;
\* the quotient bytes, least significant first
BigDivFrom(n, c, k, r) ==
    IF k = 0 THEN <<>>
    ELSE LET cur == r * 256 + n[k]
         IN  IF cur < c THEN BigDivFrom(n, c, k - 1, cur) \o <<0>>
             ELSE BigDivFrom(n, c, k - 1, cur % c) \o <<cur \div c>>

\* n // c for a machine integer 0 < c < 2^22
BigFloorDiv(n, c) == Normalize(BigDivFrom(n, c, Len(n), 0))

RECURSIVE BigMulFrom(_, _, _, _)
\* bytes k.. of n times c, with carry
BigMulFrom(n, c, k, carry) ==
    IF k > Len(n) THEN FromInt(carry)
    ELSE LET cur == n[k] * c + carry
         IN  <<cur % 256>> \o BigMulFrom(n, c, k + 1, cur \div 256)

\* n * c for a machine integer 0 <= c < 2^22
BigMul(n, c) == Normalize(BigMulFrom(n, c, 1, 0))

\* r * r as a number, r < 2^22
BigSquare(r) == BigMul(FromInt(r), r)

RECURSIVE ISqrtBetween(_, _, _)
\* the largest r in lo..hi with r * r <= n (lo * lo <= n is given)
ISqrtBetween(n, lo, hi) ==
    IF lo = hi THEN lo
    ELSE LET mid == (lo + hi + 1) \div 2
         IN  IF BigCmp(BigSquare(mid), n) <= 0
             THEN ISqrtBetween(n, mid, hi)
             ELSE ISqrtBetween(n, lo, mid - 1)

\* int(math.sqrt(n)): the floor of the square root.  The double-precision
\* square root is exact to the floor for n < 2^52; the model draws n below 2^40.
IntSqrt(n) == ISqrtBetween(n, 0, 1048575)

(***************************************************************************)
(* Text helpers (Python str): a text is a sequence of one-character        *)
(* strings                                                                 *)
(***************************************************************************)
DigitChars == <<"0", "1", "2", "3", "4", "5", "6", "7", "8", "9">>

HexChars == <<"0", "1", "2", "3", "4", "5", "6", "7", "8", "9",
              "a", "b", "c", "d", "e", "f">>

HexCharsUpper == <<"0", "1", "2", "3", "4", "5", "6", "7", "8", "9",
                   "A", "B", "C", "D", "E", "F">>

\* The decimal digits of Unicode (category Nd), a row per script from its
\* zero to its nine, as far as a string of this module can hold them: the
\* ASCII digits, then the rows that begin at U+06F0, U+07C0, U+09E6, U+0AE6,
\* U+0BE6, U+0CE6, U+0DE6, U+0ED0, U+1090, U+17E0, U+19D0, U+1A80, U+1A90,
\* U+1BB0, U+A8D0, U+A9D0, U+A9F0 and U+ABF0 (the rows left out, U+0660 and
\* U+0966 among them, are of characters a string here cannot hold)
DecimalDigits ==
    <<<<"0", "1", "2", "3", "4", "5", "6", "7", "8", "9">>,
      <<"۰", "۱", "۲", "۳", "۴", "۵", "۶", "۷", "۸", "۹">>,
      <<"߀", "߁", "߂", "߃", "߄", "߅", "߆", "߇", "߈", "߉">>,
      <<"০", "১", "২", "৩", "৪", "৫", "৬", "৭", "৮", "৯">>,
      <<"૦", "૧", "૨", "૩", "૪", "૫", "૬", "૭", "૮", "૯">>,
      <<"௦", "௧", "௨", "௩", "௪", "௫", "௬", "௭", "௮", "௯">>,
      <<"೦", "೧", "೨", "೩", "೪", "೫", "೬", "೭", "೮", "೯">>,
      <<"෦", "෧", "෨", "෩", "෪", "෫", "෬", "෭", "෮", "෯">>,
      <<"໐", "໑", "໒", "໓", "໔", "໕", "໖", "໗", "໘", "໙">>,
      <<"႐", "႑", "႒", "႓", "႔", "႕", "႖", "႗", "႘", "႙">>,
      <<"០", "១", "២", "៣", "៤", "៥", "៦", "៧", "៨", "៩">>,
      <<"᧐", "᧑", "᧒", "᧓", "᧔", "᧕", "᧖", "᧗", "᧘", "᧙">>,
      <<"᪀", "᪁", "᪂", "᪃", "᪄", "᪅", "᪆", "᪇", "᪈", "᪉">>,
      <<"᪐", "᪑", "᪒", "᪓", "᪔", "᪕", "᪖", "᪗", "᪘", "᪙">>,
      <<"᮰", "᮱", "᮲", "᮳", "᮴", "᮵", "᮶", "᮷", "᮸", "᮹">>,
      <<"꣐", "꣑", "꣒", "꣓", "꣔", "꣕", "꣖", "꣗", "꣘", "꣙">>,
      <<"꧐", "꧑", "꧒", "꧓", "꧔", "꧕", "꧖", "꧗", "꧘", "꧙">>,
      <<"꧰", "꧱", "꧲", "꧳", "꧴", "꧵", "꧶", "꧷", "꧸", "꧹">>,
      <<"꯰", "꯱", "꯲", "꯳", "꯴", "꯵", "꯶", "꯷", "꯸", "꯹">>>>

\* ch is a decimal digit: what int() reads as a digit and \d of re matches
IsDigit(ch) == \E r \in 1..Len(DecimalDigits), d \in 1..10 : DecimalDigits[r][d] = ch

\* the value of the decimal digit ch
DigitVal(ch) ==
    (CHOOSE d \in 1..10 : \E r \in 1..Len(DecimalDigits) : DecimalDigits[r][d] = ch) - 1

\* ch is of the class [\da-fA-F], which are the digits of int(s, 16)
IsHexDigit(ch) ==
    IsDigit(ch) \/ \E d \in 11..16 : HexChars[d] = ch \/ HexCharsUpper[d] = ch

\* the value of ch as a digit of int(s, 16)
HexVal(ch) ==
    IF IsDigit(ch) THEN DigitVal(ch)
    ELSE (CHOOSE d \in 11..16 : HexChars[d] = ch \/ HexCharsUpper[d] = ch) - 1

\* the information separators U+001C..U+001F: white space to str.strip(),
\* not to int()
SeparatorChars == {"", "", "", ""}

\* The characters str.isspace() holds of, as far as a string of this module
\* can hold them: blank, tab, line feed, carriage return, form feed, in the
\* second line U+000B, U+0085, U+00A0 and U+1680, and the separators (the
\* white space from U+2000 on is left out)
SpaceChars ==
    {" ", "\t", "\n", "\r", "\f",
     "", "", " ", " "} \cup SeparatorChars

\* ch.isspace()
IsSpace(ch) == ch \in SpaceChars

RECURSIVE Digits(_)
\* str(i) for i >= 0
Digits(i) ==
    IF i < 10 THEN <<DigitChars[i + 1]>>
    ELSE Digits(i \div 10) \o <<DigitChars[(i % 10) + 1]>>

RECURSIVE HexDigits(_)
\* the hexadecimal digits of i >= 0, lower case
HexDigits(i) ==
    IF i < 16 THEN <<HexChars[i + 1]>>
    ELSE HexDigits(i \div 16) \o <<HexChars[(i % 16) + 1]>>

\* sub occurs in s at position i
OccursAt(sub, s, i) ==
    /\ i + Len(sub) - 1 <= Len(s)
    /\ \A k \in 1..Len(sub) : s[i + k - 1] = sub[k]

\* the first position >= from where sub occurs in s, 0 when there is none
Find(sub, s, from) ==
    LET hits == {i \in from..(Len(s) - Len(sub) + 1) : OccursAt(sub, s, i)}
    IN  IF hits = {} THEN 0 ELSE CHOOSE i \in hits : \A j \in hits : i <= j

\* sub in s
Contains(sub, s) == Find(sub, s, 1) # 0

RECURSIVE Split(_, _)
\* s.split(sep) for a non-empty sep
Split(s, sep) ==
    LET i == Find(sep, s, 1)
    IN  IF i = 0 THEN <<s>>
        ELSE <<SubSeq(s, 1, i - 1)>> \o Split(SubSeq(s, i + Len(sep), Len(s)), sep)

RECURSIVE LStrip(_)
LStrip(s) ==
    IF s # <<>> /\ IsSpace(s[1]) THEN LStrip(SubSeq(s, 2, Len(s))) ELSE s

RECURSIVE RStrip(_)
RStrip(s) ==
    IF s # <<>> /\ IsSpace(s[Len(s)]) THEN RStrip(SubSeq(s, 1, Len(s) - 1)) ELSE s

\* s.strip()
Strip(s) == RStrip(LStrip(s))

RECURSIVE IntLStrip(_)
RECURSIVE IntRStrip(_)
\* the white space int() skips before the number: that of strip() but the
\* separators
IntLStrip(s) ==
    IF s # <<>> /\ IsSpace(s[1]) /\ s[1] \notin SeparatorChars
    THEN IntLStrip(SubSeq(s, 2, Len(s))) ELSE s

\* the white space int() skips after the number
IntRStrip(s) ==
    IF s # <<>> /\ IsSpace(s[Len(s)]) /\ s[Len(s)] \notin SeparatorChars
    THEN IntRStrip(SubSeq(s, 1, Len(s) - 1)) ELSE s

RECURSIVE DecValue(_, _)
\* the value of a run of decimal digits with underscores between them, acc
\* the value so far
DecValue(s, acc) ==
    IF s = <<>> THEN acc
    ELSE IF s[1] = "_" THEN DecValue(SubSeq(s, 2, Len(s)), acc)
    ELSE DecValue(SubSeq(s, 2, Len(s)), acc * 10 + DigitVal(s[1]))

\* body is a decimal literal of int(): digits, with single underscores
\* between two digits
IsDecimal(body) ==
    /\ body # <<>>
    /\ \A k \in 1..Len(body) :
        \/ IsDigit(body[k])
        \/ /\ body[k] = "_"
           /\ 1 < k /\ k < Len(body)
           /\ IsDigit(body[k - 1]) /\ IsDigit(body[k + 1])

RECURSIVE HexValue(_, _)
\* the value of a run of hexadecimal digits, acc the value so far
HexValue(s, acc) ==
    IF s = <<>> THEN acc ELSE HexValue(SubSeq(s, 2, Len(s)), acc * 16 + HexVal(s[1]))

\* The text of int(s): surrounding white space skipped, an optional sign,
\* then decimal digits of any script that single underscores may separate;
\* anything else raises ValueError (ok = FALSE)
IntLiteral(s) ==
    LET t == IntRStrip(IntLStrip(s))
        signed == t # <<>> /\ (t[1] = "-" \/ t[1] = "+")
        body == IF signed THEN SubSeq(t, 2, Len(t)) ELSE t
    IN  [ok |-> IsDecimal(body), negative |-> signed /\ t[1] = "-", body |-> body]

\* int(s) for a number that is a machine integer here
PyInt(s) ==
    IF ~IntLiteral(s).ok THEN [ok |-> FALSE, val |-> 0]
    ELSE [ok |-> TRUE,
          val |-> IF IntLiteral(s).negative THEN 0 - DecValue(IntLiteral(s).body, 0)
                  ELSE DecValue(IntLiteral(s).body, 0)]

\* string literals of the sources
TxtMeasTag == <<"[", "M", "E", "A", "S", "]">>
TxtArrow == <<"=", ">">>
TxtChunk == <<"c", "h", "u", "n", "k">>
TxtMeasuring == <<"M", "e", "a", "s", "u", "r", "i", "n", "g">>
TxtFactorFound == <<"F", "a", "c", "t", "o", "r", " ", "f", "o", "u", "n", "d", ":", " ">>
TxtHexPrefix == <<"0", "x">>

(***************************************************************************)
(* Constants of brain_factor_distributed.py                                *)
(***************************************************************************)
BATCH_SIZE == 1000

chunk_depth == 4

chunk_states == 3 ^ chunk_depth

(***************************************************************************)
(* The Verifier: the check of solve_distributed on a candidate             *)
(***************************************************************************)
\* IsFactor without the upper bound candidate < n_val
IsFactorNoUpper(n, candidate) ==
    /\ candidate > 1
    /\ BigMod(n, candidate) = 0

\* candidate > 1 and candidate < n_val and (n_val % candidate == 0)
IsFactor(n, candidate) ==
    /\ candidate > 1
    /\ BigCmp(FromInt(candidate), n) < 0
    /\ BigMod(n, candidate) = 0

(***************************************************************************)
(* Partitioning: limit, num_chunks and the batches of the for loop         *)
(***************************************************************************)
\* limit = int(math.sqrt(n_val)) + 1
Limit(n) == IntSqrt(n) + 1

\* num_chunks = math.ceil(limit / chunk_states)
NumChunks(lim) == (lim + chunk_states - 1) \div chunk_states

\* range(0, num_chunks, BATCH_SIZE), as the sequence of its values
RangeStarts(nc) ==
    [k \in 1..((nc + BATCH_SIZE - 1) \div BATCH_SIZE) |-> (k - 1) * BATCH_SIZE]

\* BatchEnd without the min: every batch is taken to be full
BatchEndNoMin(bs, nc) == bs + BATCH_SIZE

\* batch_end = min(batch_start + BATCH_SIZE, num_chunks)
BatchEnd(bs, nc) == IF bs + BATCH_SIZE < nc THEN bs + BATCH_SIZE ELSE nc

\* the batches of the for loop, in order: batch_start and batch_end of each
Batches(nc) ==
    [k \in 1..Len(RangeStarts(nc)) |->
        [start |-> RangeStarts(nc)[k], end |-> BatchEnd(RangeStarts(nc)[k], nc)]]

(***************************************************************************)
(* The parser of the engine's output                                       *)
(***************************************************************************)
\* Recombine with the chunk index taken as global: batch_start left out
RecombineLocal(val_local, c_idx, bs) == val_local + c_idx * chunk_states

\* global_offset = (batch_start + c_idx) * chunk_states
\* candidate = val_local + global_offset
Recombine(val_local, c_idx, bs) == val_local + (bs + c_idx) * chunk_states

\* The text of one line of the output: skipped when it carries no "[MEAS]",
\* when a piece is missing (IndexError) or is no integer (ValueError);
\* otherwise the local value and the local chunk index.
ParseFields(line) ==
    LET skip == [has |-> FALSE, val_local |-> 0, c_idx |-> 0]
        parts == Split(line, TxtArrow)
        chunks == Split(line, TxtChunk)
    IN  IF ~Contains(TxtMeasTag, line) THEN skip
        ELSE IF Len(parts) < 2 THEN skip
        ELSE LET v == PyInt(Strip(parts[2]))
             IN  IF ~v.ok THEN skip
                 ELSE IF Len(chunks) < 2 THEN skip
                 ELSE LET c == PyInt(Strip(Split(chunks[2], TxtArrow)[1]))
                      IN  IF ~c.ok THEN skip
                          ELSE [has |-> TRUE, val_local |-> v.val, c_idx |-> c.val]

(***************************************************************************)
(* What the engine may print                                               *)
(***************************************************************************)
\* "[MEAS] Measuring chunk <c> => <v>", the format the parser documents
MeasLine(c, v) ==
    TxtMeasTag \o <<" ">> \o TxtMeasuring \o <<" ">> \o TxtChunk \o <<" ">>
    \o Digits(c) \o <<" ">> \o TxtArrow \o <<" ">> \o Digits(v)

\* "Factor found: 0x<hex>"
FactorLine(f) == TxtFactorFound \o TxtHexPrefix \o HexDigits(f)

\* a measurement line whose chunk index is no number
BadChunkLine == TxtMeasTag \o <<" ">> \o TxtChunk \o <<" ", "?", " ">> \o TxtArrow \o <<" ", "7">>

\* a measurement tag with no report after it
BareTagLine == TxtMeasTag \o <<" ", "o", "k">>

\* "[MEAS] Measuring chunk <c> =><U+00A0>0_<v><U+001F>" with c written as a
\* Bengali digit (U+09E6..) and v as an extended Arabic-Indic digit
\* (U+06F0..): a line int() and strip() read like MeasLine(c, v), for c and v
\* of one digit
SeparatedLine(c, v) ==
    TxtMeasTag \o <<" ">> \o TxtMeasuring \o <<" ">> \o TxtChunk \o <<" ">>
    \o <<DecimalDigits[4][c + 1]>> \o <<" ">> \o TxtArrow \o <<" ">>
    \o <<"0", "_", DecimalDigits[2][v + 1], "">>

EngineLines ==
    {MeasLine(0, 3), MeasLine(1, 7), MeasLine(0, 0), BadChunkLine, BareTagLine,
     FactorLine(3), SeparatedLine(0, 7)}

\* ParseFields of every line the engine may print, computed once
ParsedLines == [l \in EngineLines |-> ParseFields(l)]

\* the parsed fields f of a line with the candidate recombined in the batch
\* that starts at chunk bs
WithCandidate(f, bs) ==
    [has |-> f.has, val_local |-> f.val_local, c_idx |-> f.c_idx,
     candidate |-> IF f.has THEN Recombine(f.val_local, f.c_idx, bs) ELSE 0]

\* One line of the output in the batch that starts at chunk bs: the parsed
\* fields and the recombined candidate
ParseLine(line, bs) == WithCandidate(ParsedLines[line], bs)

RECURSIVE ScanOutput(_, _, _, _, _)
\* ScanLine without the return: the scan goes on after a verified candidate
\* and a later verified candidate replaces it
ScanLineNoStop(lines, k, bs, n, acc, p) ==
    IF ~p.has THEN ScanOutput(lines, k + 1, bs, n, acc)
    ELSE IF IsFactor(n, p.candidate)
    THEN LET rest == ScanOutput(lines, k + 1, bs, n, Append(acc, p.candidate))
         IN  IF rest.found THEN rest
             ELSE [found |-> TRUE, checked |-> rest.checked,
                   candidate |-> p.candidate, line |-> k]
    ELSE ScanOutput(lines, k + 1, bs, n, Append(acc, p.candidate))

\* ScanLine with the except clause left out: a line that cannot be parsed
\* ends the scan
ScanLineStopAtBadLine(lines, k, bs, n, acc, p) ==
    IF ~p.has THEN [found |-> FALSE, checked |-> acc, candidate |-> 0, line |-> 0]
    ELSE IF IsFactor(n, p.candidate)
    THEN [found |-> TRUE, checked |-> Append(acc, p.candidate),
          candidate |-> p.candidate, line |-> k]
    ELSE ScanOutput(lines, k + 1, bs, n, Append(acc, p.candidate))

\* ScanLine that keeps the candidates seen: a candidate verified before is
\* not verified again
ScanLineDedup(lines, k, bs, n, acc, p) ==
    IF ~p.has \/ (\E j \in 1..Len(acc) : acc[j] = p.candidate)
    THEN ScanOutput(lines, k + 1, bs, n, acc)
    ELSE IF IsFactor(n, p.candidate)
    THEN [found |-> TRUE, checked |-> Append(acc, p.candidate),
          candidate |-> p.candidate, line |-> k]
    ELSE ScanOutput(lines, k + 1, bs, n, Append(acc, p.candidate))

\* The body of the loop over the lines for line k, parsed as p: a skipped line
\* goes on to the next; a candidate is verified, and the first one that
\* verifies ends the function.
ScanLine(lines, k, bs, n, acc, p) ==
    IF ~p.has THEN ScanOutput(lines, k + 1, bs, n, acc)
    ELSE IF IsFactor(n, p.candidate)
    THEN [found |-> TRUE, checked |-> Append(acc, p.candidate),
          candidate |-> p.candidate, line |-> k]
    ELSE ScanOutput(lines, k + 1, bs, n, Append(acc, p.candidate))

\* The loop over output.splitlines() from line k on; acc is the sequence of
\* candidates verified so far, in order.
ScanOutput(lines, k, bs, n, acc) ==
    IF k > Len(lines)
    THEN [found |-> FALSE, checked |-> acc, candidate |-> 0, line |-> 0]
    ELSE ScanLine(lines, k, bs, n, acc, ParseLine(lines[k], bs))

RECURSIVE SeqsUpTo(_, _)
\* the sequences over S of length at most n
SeqsUpTo(S, n) ==
    IF n = 0 THEN {<<>>}
    ELSE LET shorter == SeqsUpTo(S, n - 1)
         IN  shorter \cup {Append(q, x) : q \in {r \in shorter : Len(r) = n - 1}, x \in S}

EngineOutputs == SeqsUpTo(EngineLines, MaxLines)

\* the moduli given on the command line
Moduli ==
    {FromInt(2), FromInt(21), FromInt(23), FromInt(49), FromInt(6600),
     BigMul(FromInt(80999), 81001), BigMul(FromInt(81000), 81000),
     BigMul(FromInt(81000), 81003)}

(***************************************************************************)
(* Arithmetic on numbers of any length, and the double-precision results  *)
(* of math.sqrt and of the true division on them                           *)
(***************************************************************************)
RECURSIVE BigAddFrom(_, _, _, _)
\* bytes k.. of a + b, with carry
BigAddFrom(a, b, k, carry) ==
    IF k > Len(a) /\ k > Len(b) THEN FromInt(carry)
    ELSE LET cur == (IF k <= Len(a) THEN a[k] ELSE 0)
                    + (IF k <= Len(b) THEN b[k] ELSE 0) + carry
         IN  <<cur % 256>> \o BigAddFrom(a, b, k + 1, cur \div 256)

BigAdd(a, b) == Normalize(BigAddFrom(a, b, 1, 0))

RECURSIVE BigSubFrom(_, _, _, _)
\* bytes k.. of a - b, with borrow
BigSubFrom(a, b, k, borrow) ==
    IF k > Len(a) THEN <<>>
    ELSE LET cur == a[k] - (IF k <= Len(b) THEN b[k] ELSE 0) - borrow
         IN  <<IF cur < 0 THEN cur + 256 ELSE cur>>
             \o BigSubFrom(a, b, k + 1, IF cur < 0 THEN 1 ELSE 0)

\* a - b for a >= b
BigSub(a, b) == Normalize(BigSubFrom(a, b, 1, 0))

RECURSIVE BigMulBigFrom(_, _, _)
\* a times the bytes k.. of b
BigMulBigFrom(a, b, k) ==
    IF k > Len(b) THEN <<>>
    ELSE BigAdd(BigMul(a, b[k]), Normalize(<<0>> \o BigMulBigFrom(a, b, k + 1)))

\* a * b
BigMulBig(a, b) == BigMulBigFrom(a, b, 1)

\* the bit length of a byte
TopBits(b) ==
    IF b >= 128 THEN 8 ELSE IF b >= 64 THEN 7 ELSE IF b >= 32 THEN 6
    ELSE IF b >= 16 THEN 5 ELSE IF b >= 8 THEN 4 ELSE IF b >= 4 THEN 3
    ELSE IF b >= 2 THEN 2 ELSE b

\* n.bit_length()
BitLen(n) == IF n = <<>> THEN 0 ELSE 8 * (Len(n) - 1) + TopBits(n[Len(n)])

\* n << s
Shl(n, s) == IF n = <<>> THEN <<>> ELSE [j \in 1..(s \div 8) |-> 0] \o BigMul(n, 2 ^ (s % 8))

\* n >> s
Shr(n, s) ==
    IF s \div 8 >= Len(n) THEN <<>>
    ELSE BigFloorDiv(SubSeq(n, s \div 8 + 1, Len(n)), 2 ^ (s % 8))

IsOdd(n) == n # <<>> /\ n[1] % 2 = 1

\* r with the hexadecimal digit d added at position b
WithDigit(r, d, b) == BigAdd(r, Shl(FromInt(d), 4 * b))

\* the greatest hexadecimal digit d for which r with d at position b has a
\* square of at most x
IsqrtDigit(x, r, b) ==
    CHOOSE d \in 0..15 :
        /\ BigCmp(BigMulBig(WithDigit(r, d, b), WithDigit(r, d, b)), x) <= 0
        /\ d < 15 =>
            BigCmp(BigMulBig(WithDigit(r, d + 1, b), WithDigit(r, d + 1, b)), x) > 0

RECURSIVE IsqrtFrom(_, _, _)
\* the floor of the square root of x, one hexadecimal digit at a time: the
\* digits of r above position b are settled (the test on r has r computed
\* before the next digit is looked for)
IsqrtFrom(x, r, b) ==
    IF b < 0 \/ Len(r) > Len(x) THEN r
    ELSE IsqrtFrom(x, WithDigit(r, IsqrtDigit(x, r, b), b), b - 1)

\* the floor of the square root of x, exactly
BigIsqrt(x) == IsqrtFrom(x, <<>>, BitLen(x) \div 8)

\* n rounded to a multiple of 2^s, to the nearest, a tie to the even one
RoundShift(n, s) ==
    IF \/ BigCmp(BigSub(n, Shl(Shr(n, s), s)), Shl(<<1>>, s - 1)) > 0
       \/ (BigSub(n, Shl(Shr(n, s), s)) = Shl(<<1>>, s - 1) /\ IsOdd(Shr(n, s)))
    THEN Shl(BigAdd(Shr(n, s), <<1>>), s)
    ELSE Shl(Shr(n, s), s)

\* float(N) raises OverflowError: N rounds to 2^1024, that is
\* N >= 2^1024 - 2^970, the 54 leading bits of a 1024-bit N being ones
FloatOverflow(n) ==
    \/ Len(n) > 128
    \/ /\ Len(n) = 128
       /\ \A j \in 123..128 : n[j] = 255
       /\ n[122] >= 252

\* 3 * (2^1279 - 1) = 2^1280 + 2^1279 - 3, three times a Mersenne prime
ThreeHugePrime ==
    [j \in 1..161 |->
        IF j = 1 THEN 253 ELSE IF j = 160 THEN 127 ELSE IF j = 161 THEN 1 ELSE 255]

\* n rounded to 53 significant bits, to the nearest, a tie to the even one:
\* float(n) as the integer it is, for an n float() converts
\* (~FloatOverflow(n))
RoundTo53(n) == IF BitLen(n) <= 53 THEN n ELSE RoundShift(n, BitLen(n) - 53)

\* int(math.sqrt(x)) for a double x >= 1 that is the integer x, r the floor of
\* its square root: the square root is rounded to 53 significant bits, to
\* the nearest, and int() drops the fraction
SqrtRounded(x, r) ==
    IF BigMulBig(r, r) = x THEN RoundTo53(r)
    ELSE IF BitLen(r) >= 54
    THEN \* the doubles near r are the multiples of 2^s
         LET s == BitLen(r) - 53
             t == Shl(Shr(r, s), s)
             mid == BigAdd(t, Shl(<<1>>, s - 1))
             c == BigCmp(x, BigMulBig(mid, mid))
         IN  IF c > 0 \/ (c = 0 /\ IsOdd(Shr(r, s)))
             THEN BigAdd(t, Shl(<<1>>, s)) ELSE t
    ELSE IF BitLen(r) = 53
    THEN \* the doubles near r are the integers
         IF BigCmp(x, BigAdd(BigAdd(BigMulBig(r, r), r), <<1>>)) >= 0
         THEN BigAdd(r, <<1>>) ELSE r
    ELSE \* the doubles below r + 1 are 2^-f apart, f = 53 - BitLen(r): the
         \* result is r + 1 when the root is above r + 1 - 2^-(f+1)
         LET f == 53 - BitLen(r)
             g == BigSub(Shl(BigAdd(r, <<1>>), f + 1), <<1>>)
         IN  IF BigCmp(Shl(x, 2 * f + 2), BigMulBig(g, g)) > 0
             THEN BigAdd(r, <<1>>) ELSE r

\* int(math.sqrt(n)) for an n >= 1 float() converts: n is converted to a
\* double first
PySqrtInt(n) == SqrtRounded(RoundTo53(n), BigIsqrt(RoundTo53(n)))

\* math.ceil(a / d) for d < 256, fl = a // d and rem = a % d: the quotient
\* is rounded to 53 significant bits, to the nearest, before the ceiling
CeilRounded(fl, rem, d) ==
    IF rem = 0 THEN RoundTo53(fl)
    ELSE IF BitLen(fl) >= 54
    THEN LET s == BitLen(fl) - 53
             t == Shl(Shr(fl, s), s)
         IN  IF BigCmp(fl, BigAdd(t, Shl(<<1>>, s - 1))) >= 0
             THEN BigAdd(t, Shl(<<1>>, s)) ELSE t
    ELSE IF BitLen(fl) = 53
    THEN IF 2 * rem > d THEN BigAdd(fl, <<1>>) ELSE fl
    ELSE IF 54 - BitLen(fl) <= 8 /\ rem * 2 ^ (54 - BitLen(fl)) < d
         THEN fl ELSE BigAdd(fl, <<1>>)

PyCeilDiv(a, d) == CeilRounded(BigFloorDiv(a, d), BigMod(a, d), d)

\* limit = int(math.sqrt(n_val)) + 1 and num_chunks = math.ceil(limit /
\* chunk_states) for n_val of any length, in double precision as Python
\* computes them; raised when math.sqrt cannot convert n_val to a double
\* (OverflowError)
RangeOf(n) ==
    IF FloatOverflow(n) THEN [raised |-> TRUE, limit |-> <<>>, num_chunks |-> <<>>]
    ELSE [raised |-> FALSE,
          limit |-> BigAdd(PySqrtInt(n), <<1>>),
          num_chunks |-> PyCeilDiv(BigAdd(PySqrtInt(n), <<1>>), chunk_states)]

(***************************************************************************)
(* The instruction encoders.  A Python integer that may exceed a machine   *)
(* integer is a little-endian sequence of 16-bit limbs.                    *)
(***************************************************************************)
RECURSIVE BitOr(_, _)
\* a | b for a, b >= 0
BitOr(a, b) ==
    IF a = 0 THEN b
    ELSE IF b = 0 THEN a
    ELSE (IF a % 2 = 1 \/ b % 2 = 1 THEN 1 ELSE 0) + 2 * BitOr(a \div 2, b \div 2)

RECURSIVE BitAnd(_, _)
\* a & b for a, b >= 0
BitAnd(a, b) ==
    IF a = 0 \/ b = 0 THEN 0
    ELSE (IF a % 2 = 1 /\ b % 2 = 1 THEN 1 ELSE 0) + 2 * BitAnd(a \div 2, b \div 2)

RECURSIVE Limbs(_)
\* the 16-bit limbs of x >= 0
Limbs(x) == IF x = 0 THEN <<>> ELSE <<x % 65536>> \o Limbs(x \div 65536)

\* x << (16 * k), x given by its limbs
ShiftLimbs(x, k) == IF x = <<>> THEN <<>> ELSE [j \in 1..k |-> 0] \o x

\* a | b on limbs
OrLimbs(a, b) ==
    [j \in 1..(IF Len(a) > Len(b) THEN Len(a) ELSE Len(b)) |->
        BitOr(IF j <= Len(a) THEN a[j] ELSE 0, IF j <= Len(b) THEN b[j] ELSE 0)]

\* struct.pack('<Q', x): the eight bytes of x, least significant first;
\* struct.error (ok = FALSE) when x does not fit 64 bits
PackQ(x) ==
    LET limb(j) == IF j <= Len(x) THEN x[j] ELSE 0
    IN  IF \E j \in 5..Len(x) : x[j] # 0 THEN [ok |-> FALSE, bytes |-> <<>>]
        ELSE [ok |-> TRUE,
              bytes |-> [b \in 1..8 |->
                  IF b % 2 = 1 THEN limb((b + 1) \div 2) % 256
                  ELSE limb(b \div 2) \div 256]]

\* struct.pack('<HHHH', a, b, c, d): struct.error when a value is not in
\* 0..65535
PackHHHH(a, b, c, d) ==
    IF \E x \in {a, b, c, d} : x < 0 \/ x > 65535 THEN [ok |-> FALSE, bytes |-> <<>>]
    ELSE [ok |-> TRUE,
          bytes |-> <<a % 256, a \div 256, b % 256, b \div 256,
                      c % 256, c \div 256, d % 256, d \div 256>>]

\* make_instr with op1 and op2 in each other's place
make_instr_swapped(opcode, target, op1, op2) ==
    PackQ(OrLimbs(OrLimbs(OrLimbs(ShiftLimbs(Limbs(op1), 3), ShiftLimbs(Limbs(op2), 2)),
                          ShiftLimbs(Limbs(target), 1)),
                  Limbs(opcode)))

\* brain_factor_distributed.make_instr:
\* instr = (op2 << 48) | (op1 << 32) | (target << 16) | opcode
make_instr(opcode, target, op1, op2) ==
    PackQ(OrLimbs(OrLimbs(OrLimbs(ShiftLimbs(Limbs(op2), 3), ShiftLimbs(Limbs(op1), 2)),
                          ShiftLimbs(Limbs(target), 1)),
                  Limbs(opcode)))

\* shor_factor.pack_instruction
pack_instruction(opcode, target, op1, op2) == PackHHHH(opcode, target, op1, op2)

\* pack_instr with the target field at bit 16, as make_instr places it
pack_instr_target16(opcode, target, op1, op2) ==
    [ok |-> TRUE,
     bytes |-> <<BitAnd(opcode, 255), 0,
                 BitAnd(target, 16777215) % 256, (BitAnd(target, 16777215) \div 256) % 256,
                 BitAnd(op1, 16777215) % 256, (BitAnd(op1, 16777215) \div 256) % 256,
                 BitAnd(op1, 16777215) \div 65536, BitAnd(op2, 255)>>]

\* benchmark.pack_instr:
\* instr = (opcode & 0xFF) | ((target & 0xFFFFFF) << 8)
\*         | ((op1 & 0xFFFFFF) << 32) | ((op2 & 0xFF) << 56)
\* The masked fields lie in bytes 0, 1..3, 4..6 and 7 of the word, which
\* always fits 64 bits: struct.pack('<Q', instr) never fails.
pack_instr(opcode, target, op1, op2) ==
    [ok |-> TRUE,
     bytes |-> <<BitAnd(opcode, 255),
                 BitAnd(target, 16777215) % 256, (BitAnd(target, 16777215) \div 256) % 256,
                 BitAnd(target, 16777215) \div 65536,
                 BitAnd(op1, 16777215) % 256, (BitAnd(op1, 16777215) \div 256) % 256,
                 BitAnd(op1, 16777215) \div 65536, BitAnd(op2, 255)>>]

\* to_bytes without the masks
to_bytes_unmasked(opcode, args) ==
    PackQ(OrLimbs(OrLimbs(OrLimbs(Limbs(opcode),
                                  ShiftLimbs(Limbs(IF Len(args) > 0 THEN args[1] ELSE 0), 1)),
                          ShiftLimbs(Limbs(IF Len(args) > 1 THEN args[2] ELSE 0), 2)),
                  ShiftLimbs(Limbs(IF Len(args) > 2 THEN args[3] ELSE 0), 3)))

\* GUI.Instruction.to_bytes: args holds target, op1, op2, each defaulting to 0
\* when the list is too short
to_bytes(opcode, args) ==
    LET target == IF Len(args) > 0 THEN args[1] ELSE 0
        op1 == IF Len(args) > 1 THEN args[2] ELSE 0
        op2 == IF Len(args) > 2 THEN args[3] ELSE 0
    IN  PackQ(OrLimbs(OrLimbs(OrLimbs(Limbs(BitAnd(opcode, 65535)),
                                      ShiftLimbs(Limbs(BitAnd(target, 65535)), 1)),
                              ShiftLimbs(Limbs(BitAnd(op1, 65535)), 2)),
                      ShiftLimbs(Limbs(BitAnd(op2, 65535)), 3)))

\* the field values the encoders are applied to
FieldValues == {0, 1, 3, 5, 255, 256, 65535, 65536, 70000, 16777216}

(***************************************************************************)
(* The program of one batch, as solve_distributed builds it: a sequence of *)
(* encoded words, each the result of make_instr                            *)
(***************************************************************************)
OP_INIT == 1

OP_MEASURE == 7

OP_ORACLE == 11

OP_IM_WEIGHTS == 26

OP_STORE_LO == 23

OP_STORE_HI == 24

OP_HALT == 255

ID_NEURAL_INIT == 9

ID_NEURAL_DIFF == 11

ID_DIVISOR == 12

\* iters = 5
iters == 5

\* One instruction of the program: the arguments of the make_instr call and
\* what it returns
Instr(opcode, target, op1, op2) ==
    [args |-> <<opcode, target, op1, op2>>,
     ok |-> make_instr(opcode, target, op1, op2).ok,
     bytes |-> make_instr(opcode, target, op1, op2).bytes]

\* Half with a mask of 24 bits
HalfWide(x, j) ==
    (IF 2 * j + 1 <= Len(x) THEN x[2 * j + 1] ELSE 0)
    + 256 * (IF 2 * j + 2 <= Len(x) THEN x[2 * j + 2] ELSE 0)
    + 65536 * (IF 2 * j + 3 <= Len(x) THEN x[2 * j + 3] ELSE 0)

\* (x >> (16 * j)) & 0xFFFF for x given by its bytes
Half(x, j) ==
    (IF 2 * j + 1 <= Len(x) THEN x[2 * j + 1] ELSE 0)
    + 256 * (IF 2 * j + 2 <= Len(x) THEN x[2 * j + 2] ELSE 0)

\* The STORE_LO / STORE_HI pair that writes x to the slot target: the four
\* 16-bit halves of the low 64 bits of x
StorePair(target, x) ==
    <<Instr(OP_STORE_LO, target, Half(x, 0), Half(x, 1)),
      Instr(OP_STORE_HI, target, Half(x, 2), Half(x, 3))>>

\* program = b''; program += make_instr(OP_IM_WEIGHTS)
WeightsPhase == <<Instr(OP_IM_WEIGHTS, 0, 0, 0)>>

\* 1. Initialize Chunks
InitPhase(active_chunks) ==
    [c \in 1..active_chunks |-> Instr(OP_INIT, c - 1, chunk_depth, 0)]

\* 2. Store N (Global Slot 2)
StoreModulus(n) == StorePair(2, n)

\* StoreOffset of the chunk id itself, not multiplied by chunk_states
StoreOffsetUnscaled(chunk_id) == StorePair(1, chunk_id)

\* offset = chunk_id * chunk_states, stored to slot 1; chunk_id is a number
\* of any length
StoreOffset(chunk_id) == StorePair(1, BigMul(chunk_id, chunk_states))

RECURSIVE NeuralInitFrom(_, _, _)
\* the loop "for c in range(active_chunks)" of the neural initialization,
\* from chunk c on; batch_start is a number of any length
NeuralInitFrom(c, batch_start, active_chunks) ==
    IF c >= active_chunks THEN <<>>
    ELSE StoreOffset(BigAdd(batch_start, FromInt(c)))
         \o <<Instr(OP_ORACLE, c, ID_NEURAL_INIT, 0)>>
         \o NeuralInitFrom(c + 1, batch_start, active_chunks)

NeuralInitPhase(batch_start, active_chunks) ==
    NeuralInitFrom(0, batch_start, active_chunks)

RECURSIVE GroverFrom(_, _, _)
\* one round k of the search loop, from chunk c on: the offset of the chunk,
\* the divisor oracle on it, the neural diffusion on it; batch_start is a
\* number of any length
GroverFrom(c, batch_start, active_chunks) ==
    IF c >= active_chunks THEN <<>>
    ELSE StoreOffset(BigAdd(batch_start, FromInt(c)))
         \o <<Instr(OP_ORACLE, c, ID_DIVISOR, 0),
              Instr(OP_ORACLE, c, ID_NEURAL_DIFF, 0)>>
         \o GroverFrom(c + 1, batch_start, active_chunks)

\* GroverRound with the chunk index taken for the chunk id: batch_start is
\* left out of the offset
GroverRoundLocalOffset(batch_start, active_chunks) ==
    GroverFrom(0, <<>>, active_chunks)

\* GroverRound with the chunks measured at the end of each round
GroverRoundMeasuring(batch_start, active_chunks) ==
    GroverFrom(0, batch_start, active_chunks)
    \o [c \in 1..active_chunks |-> Instr(OP_MEASURE, c - 1, 0, 0)]

GroverRound(batch_start, active_chunks) == GroverFrom(0, batch_start, active_chunks)

\* MeasurePhase that stops one chunk short
MeasurePhaseShort(active_chunks) ==
    [c \in 1..(active_chunks - 1) |-> Instr(OP_MEASURE, c - 1, 0, 0)]

\* 4. Measure All
MeasurePhase(active_chunks) ==
    [c \in 1..active_chunks |-> Instr(OP_MEASURE, c - 1, 0, 0)]

\* a program with no HALT at its end
HaltPhaseMissing == <<>>

\* program += make_instr(OP_HALT)
HaltPhase == <<Instr(OP_HALT, 0, 0, 0)>>

RECURSIVE BytesOf(_)
\* the bytes of a sequence of encoded words, in order
BytesOf(words) ==
    IF words = <<>> THEN <<>> ELSE Head(words).bytes \o BytesOf(Tail(words))

(***************************************************************************)
(* State                                                                   *)
(***************************************************************************)
VARIABLES
    \* solve_distributed
    n_val,          \* the modulus
    pc,             \* "idle", "init", "loop", "done" (returned), "crashed" (uncaught exception)
    limit,
    num_chunks,
    launched,       \* the batches whose program was written and handed to the engine
    timed_out,      \* the batch starts whose engine run timed out
    last_run,       \* how the last engine run ended: "none", "timeout", "missing", "exit0",
                    \* "exit1", "undecodable" (it exited, its output is no UTF-8 text)
    output,         \* result.stdout of the last completed engine run, as lines
    checked,        \* the candidates verified in the last iteration, in order
    factor,         \* the candidate printed as a factor, 0 when none
    cofactor,       \* n_val // candidate as printed
    report,         \* "none", "success", "notfound"
    files,          \* the names of the program files that exist in the working directory
    written,        \* the file name each engine run of this call was given, in order
    proc,           \* the engine process of the last run: "none", "exited", "killed"
    printed,        \* what that process wrote to its standard output, as lines (the
                    \* lines of text among it, when it is undecodable)
    tasks           \* per batch, where its iteration of the for loop is: "idle" (not
                    \* begun), "dispatched" (program written), "running" (inside
                    \* subprocess.run), and how it ended: "returned" (line 211),
                    \* "continued" (line 188), "ended" (the end of the loop body),
                    \* "raised" (an exception left solve_distributed)

runVars == <<n_val, pc, limit, num_chunks, launched, timed_out, last_run, output,
             checked, factor, cofactor, report, files, written, proc, printed, tasks>>

VARIABLES
    \* the Verifier applied to one pair
    v_n,            \* the modulus, a machine integer here
    v_c,            \* the candidate
    v_res           \* "none", or the verdict "yes" / "no"

verVars == <<v_n, v_c, v_res>>

VARIABLES
    \* an encoder applied to one instruction
    e_opcode,
    e_args,         \* target, op1, op2
    e_len,          \* how many of the args are passed (to_bytes defaults the rest)
    e_by,           \* "none", or the encoder applied
    e_out,          \* its result: [ok, bytes], ok = FALSE for struct.error
    e_alt           \* the result of benchmark.pack_instr on the same instruction,
                    \* <<>> before it is applied

encVars == <<e_opcode, e_args, e_len, e_by, e_out, e_alt>>

VARIABLES
    \* the scripts that report factors: run_large_shor, run_multiverse_factoring
    r_script,       \* "none", "shor_large", "sieve"
    r_n,            \* N
    r_pc,           \* "idle", "run", "done", "crashed" (uncaught exception)
    r_trial,        \* run_large_shor: the trials done
    r_factors,      \* run_large_shor: the set factors
    r_out,          \* the engine output last read, as lines
    r_reported      \* the values printed to the user as factors found

repVars == <<r_script, r_n, r_pc, r_trial, r_factors, r_out, r_reported>>

VARIABLES
    \* the program of one batch of solve_distributed while it is built
    b_n,            \* n_val
    b_batch,        \* [start, end]: batch_start and batch_end
    b_pc,           \* "idle", then the place in the loop body: "weights", "init",
                    \* "store_n", "neural", "search", "measure", "halt", "write", "written"
    b_k,            \* the rounds of the search loop emitted
    b_program,      \* program: the bytes so far
    b_count,        \* the make_instr calls so far
    b_instrs,       \* their arguments (opcode, target, op1, op2), in order
    b_file          \* what qbin_file holds: the bytes this iteration wrote, and
                    \* before its write what the run left there (LeftInFile)

bldVars == <<b_n, b_batch, b_pc, b_k, b_program, b_count, b_instrs, b_file>>

VARIABLES
    \* the store of the modulus on its own
    s_n,            \* n_val
    s_words         \* the words emitted for it, <<>> before

stoVars == <<s_n, s_words>>

VARIABLES
    \* ShorFactoringGUI: run_factoring and its execute_engine thread
    g_n,            \* N as entered
    g_chunks,       \* the chunk count as entered
    g_limit,        \* the chunk limit of the engine at engine_path
    g_pc,           \* "idle", "entered", "thread" (execute_engine started), "running"
                    \* (in the try), "building" (waiting for the build command),
                    \* "waiting" (reading the engine's output), "done", "crashed" (the
                    \* thread died of an exception)
    g_size,         \* the length of qbin_data in bytes
    g_tmp,          \* the temporary file: "none", "written", "removed"
    g_launched,     \* the engine process was started
    g_log,          \* the last message logged: "start", "build", "line" (a line of the
                    \* engine), "success", "error_exit", "exec_error"
    g_parts,        \* the OP_LOAD_N_PART words of qbin_data, in order
    g_btn,          \* the state of run_btn: "normal", "disabled"
    g_after         \* a callback is scheduled with root.after and has not run yet

guiVars == <<g_n, g_chunks, g_limit, g_pc, g_size, g_tmp, g_launched, g_log,
             g_parts, g_btn, g_after>>

VARIABLES
    \* the range of solve_distributed for a modulus of any length
    q_n,            \* n_val
    q_pc,           \* "idle", "init", "loop", "crashed" (uncaught exception)
    q_limit,        \* limit
    q_chunks        \* num_chunks

rngVars == <<q_n, q_pc, q_limit, q_chunks>>

VARIABLES
    \* shor_factor
    f_n,            \* N
    f_verbose,      \* verbose
    f_pc,           \* "idle", "start", "trial", "done" (returned), "crashed" (raised)
    f_trial,        \* the trials ended without a return
    f_a,            \* the base of the last trial, 0 before
    f_measured,     \* what run_quantum_period_finding returned last: -1 for None
    f_ret,          \* "none", "pair" (two numbers returned), "nothing" ((None, None))
    f_p,            \* the first number returned, 0 when none
    f_q,            \* the second number returned, <<>> when none
    f_engine        \* the calls of run_quantum_period_finding

shorVars ==
    <<f_n, f_verbose, f_pc, f_trial, f_a, f_measured, f_ret, f_p, f_q, f_engine>>

VARIABLES
    \* one chunk of one iteration of the batch loop, at any distance from 0
    o_n,            \* n_val
    o_start,        \* batch_start, a number of any length
    o_c,            \* c, the local index of the chunk
    o_pc,           \* "idle", "build", "run", "parsed", "crashed"
    o_words,        \* the bytes a round of the search loop appends for chunk c
    o_val,          \* val_local of the line parsed
    o_global,       \* global_offset
    o_candidate     \* candidate

offVars == <<o_n, o_start, o_c, o_pc, o_words, o_val, o_global, o_candidate>>

auxVars == <<rngVars, shorVars, offVars>>

extVars == <<bldVars, stoVars, guiVars, auxVars>>

vars == <<runVars, verVars, encVars, repVars, extVars>>

BldIdle ==
    /\ b_n = <<>>
    /\ b_batch = [start |-> 0, end |-> 0]
    /\ b_pc = "idle"
    /\ b_k = 0
    /\ b_program = <<>>
    /\ b_count = 0
    /\ b_instrs = <<>>
    /\ b_file = <<>>

StoIdle == s_n = <<>> /\ s_words = <<>>

GuiIdle ==
    /\ g_n = <<>>
    /\ g_chunks = 0
    /\ g_limit = 0
    /\ g_pc = "idle"
    /\ g_size = 0
    /\ g_tmp = "none"
    /\ g_launched = FALSE
    /\ g_log = "none"
    /\ g_parts = <<>>
    /\ g_btn = "normal"
    /\ g_after = FALSE

RngIdle == q_n = <<>> /\ q_pc = "idle" /\ q_limit = <<>> /\ q_chunks = <<>>

ShorIdle ==
    /\ f_n = <<>>
    /\ f_verbose = FALSE
    /\ f_pc = "idle"
    /\ f_trial = 0
    /\ f_a = 0
    /\ f_measured = -1
    /\ f_ret = "none"
    /\ f_p = 0
    /\ f_q = <<>>
    /\ f_engine = 0

OffIdle ==
    /\ o_n = <<>>
    /\ o_start = <<>>
    /\ o_c = 0
    /\ o_pc = "idle"
    /\ o_words = <<>>
    /\ o_val = 0
    /\ o_global = <<>>
    /\ o_candidate = <<>>

AuxIdle == RngIdle /\ ShorIdle /\ OffIdle

ExtIdle == BldIdle /\ StoIdle /\ GuiIdle /\ AuxIdle

RunIdle ==
    /\ n_val = <<>>
    /\ pc = "idle"
    /\ limit = 0
    /\ num_chunks = 0
    /\ launched = <<>>
    /\ timed_out = {}
    /\ last_run = "none"
    /\ output = <<>>
    /\ checked = <<>>
    /\ factor = 0
    /\ cofactor = <<>>
    /\ report = "none"
    /\ files = {}
    /\ written = <<>>
    /\ proc = "none"
    /\ printed = <<>>
    /\ tasks = <<>>

VerIdle == v_n = 0 /\ v_c = 0 /\ v_res = "none"

EncIdle ==
    /\ e_opcode = 0
    /\ e_args = <<>>
    /\ e_len = 0
    /\ e_by = "none"
    /\ e_out = [ok |-> TRUE, bytes |-> <<>>]
    /\ e_alt = <<>>

RepIdle ==
    /\ r_script = "none"
    /\ r_n = <<>>
    /\ r_pc = "idle"
    /\ r_trial = 0
    /\ r_factors = {}
    /\ r_out = <<>>
    /\ r_reported = {}

(***************************************************************************)
(* solve_distributed                                                       *)
(***************************************************************************)
RunInit ==
    /\ n_val \in Moduli
    /\ pc = "init"
    /\ limit = 0
    /\ num_chunks = 0
    /\ launched = <<>>
    /\ timed_out = {}
    /\ last_run = "none"
    /\ output = <<>>
    /\ checked = <<>>
    /\ factor = 0
    /\ cofactor = <<>>
    /\ report = "none"
    /\ files = {}
    /\ written = <<>>
    /\ proc = "none"
    /\ printed = <<>>
    /\ tasks = <<>>

\* solve_distributed up to the for loop
Start ==
    /\ pc = "init"
    /\ limit' = Limit(n_val)
    /\ num_chunks' = NumChunks(Limit(n_val))
    /\ pc' = "loop"
    /\ tasks' = [i \in 1..Len(Batches(NumChunks(Limit(n_val)))) |-> "idle"]
    /\ UNCHANGED <<n_val, launched, timed_out, last_run, output, checked, factor,
                   cofactor, report, files, written, proc, printed>>
    /\ UNCHANGED <<verVars, encVars, repVars, extVars>>

\* EndOfIteration without the print after the loop
EndOfIterationSilent(last) ==
    IF last THEN [pc |-> "done", report |-> "none"]
    ELSE [pc |-> "loop", report |-> "none"]

\* the end of one iteration that found nothing: the next iteration, or, after
\* the last one, the print after the loop and the return
EndOfIteration(last) ==
    IF last THEN [pc |-> "done", report |-> "notfound"]
    ELSE [pc |-> "loop", report |-> "none"]

\* qbin_file = "distributed.qbin"
qbin_file == "distributed.qbin"

\* The engine process at the end of subprocess.run: never started when the
\* executable is missing, killed by subprocess.run when the timeout expires
\* (it kills the child before it raises TimeoutExpired), exited otherwise.
ProcessAfter(outcome) ==
    CASE outcome = "missing" -> "none"
      [] outcome = "timeout" -> "killed"
      [] OTHER -> "exited"

\* Parsed with no continue in the except clause: what the engine printed
\* before the timeout is parsed like the output of a completed run
ParsedDespiteTimeout(outcome, lines, bs, n) == ScanOutput(lines, 1, bs, n, <<>>)

\* What is parsed of the lines the engine printed: nothing after a timeout
\* (the except clause continues with the next batch, and result was never
\* assigned), result.stdout otherwise.
Parsed(outcome, lines, bs, n) ==
    IF outcome = "timeout"
    THEN [found |-> FALSE, checked |-> <<>>, candidate |-> 0, line |-> 0]
    ELSE ScanOutput(lines, 1, bs, n, <<>>)

\* The first part of one iteration of the for loop, lines 48-179: the program
\* of the batch is built and written to qbin_file.
Dispatch ==
    /\ pc = "loop"
    /\ Len(launched) < Len(Batches(num_chunks))
    /\ tasks[Len(launched) + 1] = "idle"
    /\ tasks' = [tasks EXCEPT ![Len(launched) + 1] = "dispatched"]
    /\ files' = files \cup {qbin_file}
    /\ written' = Append(written, qbin_file)
    /\ UNCHANGED <<n_val, pc, limit, num_chunks, launched, timed_out, last_run, output,
                   checked, factor, cofactor, report, proc, printed>>
    /\ UNCHANGED <<verVars, encVars, repVars, extVars>>

\* subprocess.run has started the engine process and waits for it
Launch ==
    /\ pc = "loop"
    /\ Len(launched) < Len(Batches(num_chunks))
    /\ tasks[Len(launched) + 1] = "dispatched"
    /\ tasks' = [tasks EXCEPT ![Len(launched) + 1] = "running"]
    /\ UNCHANGED <<n_val, pc, limit, num_chunks, launched, timed_out, last_run, output,
                   checked, factor, cofactor, report, files, written, proc, printed>>
    /\ UNCHANGED <<verVars, encVars, repVars, extVars>>

\* how an iteration whose engine run ended with outcome leaves the loop body
LeftBy(outcome, found) ==
    IF found THEN "returned"
    ELSE IF outcome = "timeout" THEN "continued" ELSE "ended"

\* The rest of the iteration, lines 182-214: subprocess.run ends (it raises
\* FileNotFoundError before any process exists, or the process it started
\* prints lines and exits or runs into the timeout, or exits after it
\* printed bytes that text=True cannot decode, which raises
\* UnicodeDecodeError), and the output is parsed.  result.returncode is
\* never read: a run that exits with any code is parsed alike.  The file is
\* left in place on every path.
RunBatch(outcome, lines) ==
    /\ pc = "loop"
    /\ Len(launched) < Len(Batches(num_chunks))
    /\ tasks[Len(launched) + 1] = IF outcome = "missing" THEN "dispatched" ELSE "running"
    /\ LET batch == Batches(num_chunks)[Len(launched) + 1]
           last == Len(launched) + 1 = Len(Batches(num_chunks))
           scan == Parsed(outcome, lines, batch.start, n_val)
           next == EndOfIteration(last)
       IN  /\ launched' = Append(launched, batch)
           /\ last_run' = outcome
           /\ proc' = ProcessAfter(outcome)
           /\ printed' = lines
           /\ CASE outcome \in {"missing", "undecodable"} ->
                    \* the FileNotFoundError or UnicodeDecodeError of
                    \* subprocess.run is not caught
                    /\ pc' = "crashed"
                    /\ checked' = <<>>
                    /\ tasks' = [tasks EXCEPT ![Len(launched) + 1] = "raised"]
                    /\ UNCHANGED <<timed_out, output, factor, cofactor, report>>
                [] outcome \in {"timeout", "exit0", "exit1"} ->
                    \* except subprocess.TimeoutExpired: continue
                    /\ timed_out' = IF outcome = "timeout"
                                    THEN timed_out \cup {batch.start} ELSE timed_out
                    /\ output' = IF outcome = "timeout" THEN output ELSE lines
                    /\ checked' = scan.checked
                    /\ tasks' = [tasks EXCEPT
                                    ![Len(launched) + 1] = LeftBy(outcome, scan.found)]
                    /\ IF scan.found
                       THEN /\ factor' = scan.candidate
                            /\ cofactor' = BigFloorDiv(n_val, scan.candidate)
                            /\ report' = "success"
                            /\ pc' = "done"
                       ELSE /\ pc' = next.pc
                            /\ report' = next.report
                            /\ UNCHANGED <<factor, cofactor>>
    /\ UNCHANGED <<n_val, limit, num_chunks, files, written>>
    /\ UNCHANGED <<verVars, encVars, repVars, extVars>>

\* the engine prints lines and is still running when the timeout expires
Timeout == \E lines \in EngineOutputs : RunBatch("timeout", lines)

EngineMissing == RunBatch("missing", <<>>)

Completed ==
    \E lines \in EngineOutputs, code \in {"exit0", "exit1"} : RunBatch(code, lines)

\* the engine exits after it printed bytes that are no UTF-8 text
Undecodable == \E lines \in EngineOutputs : RunBatch("undecodable", lines)

Init == RunInit /\ VerIdle /\ EncIdle /\ RepIdle /\ ExtIdle

Next ==
    Start \/ Dispatch \/ Launch \/ Timeout \/ EngineMissing \/ Completed \/ Undecodable

Spec == Init /\ [][Next]_vars

(***************************************************************************)
(* The Verifier on its own                                                 *)
(***************************************************************************)
MaxModulus == 145

MaxCandidate == 30

VerInit ==
    /\ v_n \in 0..MaxModulus
    /\ v_c \in 0..MaxCandidate
    /\ v_res = "none"

Verify ==
    /\ v_res' = IF IsFactor(FromInt(v_n), v_c) THEN "yes" ELSE "no"
    /\ UNCHANGED <<v_n, v_c>>
    /\ UNCHANGED <<runVars, encVars, repVars, extVars>>

InitVerifier == VerInit /\ RunIdle /\ EncIdle /\ RepIdle /\ ExtIdle

NextVerifier == Verify

SpecVerifier == InitVerifier /\ [][NextVerifier]_vars

(***************************************************************************)
(* The encoders on their own                                               *)
(***************************************************************************)
EncInit ==
    /\ e_opcode \in FieldValues
    /\ e_args \in [1..3 -> FieldValues]
    /\ e_len = 3
    /\ e_by = "none"
    /\ e_out = [ok |-> TRUE, bytes |-> <<>>]
    /\ e_alt = <<>>

EncodeMakeInstr ==
    /\ e_by' = "make_instr"
    /\ e_len' = 3
    /\ e_out' = make_instr(e_opcode, e_args[1], e_args[2], e_args[3])
    /\ UNCHANGED <<e_opcode, e_args, e_alt, runVars, verVars, repVars, extVars>>

EncodePackInstruction ==
    /\ e_by' = "pack_instruction"
    /\ e_len' = 3
    /\ e_out' = pack_instruction(e_opcode, e_args[1], e_args[2], e_args[3])
    /\ UNCHANGED <<e_opcode, e_args, e_alt, runVars, verVars, repVars, extVars>>

\* Instruction(opcode, args[:len]).to_bytes()
EncodeToBytes ==
    \E len \in 0..3 :
        /\ e_by' = "to_bytes"
        /\ e_len' = len
        /\ e_out' = to_bytes(e_opcode, SubSeq(e_args, 1, len))
        /\ UNCHANGED <<e_opcode, e_args, e_alt, runVars, verVars, repVars, extVars>>

\* benchmark.pack_instr(opcode, target, op1, op2)
EncodePackInstr ==
    /\ e_alt = <<>>
    /\ e_alt' = pack_instr(e_opcode, e_args[1], e_args[2], e_args[3]).bytes
    /\ UNCHANGED <<e_opcode, e_args, e_len, e_by, e_out, runVars, verVars, repVars, extVars>>

InitEnc == EncInit /\ RunIdle /\ VerIdle /\ RepIdle /\ ExtIdle

NextEnc == EncodeMakeInstr \/ EncodePackInstruction \/ EncodeToBytes \/ EncodePackInstr

SpecEnc == InitEnc /\ [][NextEnc]_vars

(***************************************************************************)
(* The scripts that print factors from the engine's output:                *)
(* test_shor_large.run_large_shor and                                      *)
(* multiverse_factoring_sieve.run_multiverse_factoring                     *)
(***************************************************************************)
\* the default N of run_large_shor, 261980999226229
ShorLargeN == <<117, 147, 101, 52, 69, 238>>

\* trials of run_large_shor
ShorTrials == 2

\* the literal text of the pattern 'Factor found: (0x[\da-fA-F]+)' up to the
\* digits
FactorPrefix == TxtFactorFound \o TxtHexPrefix

RECURSIVE HexRunEnd(_, _)
\* the last position of the run of hexadecimal digits of s that starts at j
\* (j - 1 when there is none)
HexRunEnd(s, j) ==
    IF j <= Len(s) /\ IsHexDigit(s[j]) THEN HexRunEnd(s, j + 1) ELSE j - 1

RECURSIVE FindAllFrom(_, _)
\* the pattern's literal text occurs at i and its digits end at en: no digit,
\* no match, and the search goes on one position further
MatchAt(s, i, en) ==
    IF en < i + Len(FactorPrefix) THEN FindAllFrom(s, i + 1)
    ELSE <<HexValue(SubSeq(s, i + Len(FactorPrefix), en), 0)>> \o FindAllFrom(s, en + 1)

\* the literal text occurs next at i (0: nowhere)
NextMatch(s, i) ==
    IF i = 0 THEN <<>> ELSE MatchAt(s, i, HexRunEnd(s, i + Len(FactorPrefix)))

\* [int(f, 16) for f in re.findall(r'Factor found: (0x[\da-fA-F]+)', s)]
\* from position from on
FindAllFrom(s, from) == NextMatch(s, Find(FactorPrefix, s, from))

RECURSIVE FactorsIn(_, _)
\* the values matched in the lines k.. of the output
FactorsIn(lines, k) ==
    IF k > Len(lines) THEN {}
    ELSE {FindAllFrom(lines[k], 1)[j] : j \in 1..Len(FindAllFrom(lines[k], 1))}
         \cup FactorsIn(lines, k + 1)

\* "Factor found: 0x<d>" with the digit d written in the script of row
ScriptFactorLine(row, d) == FactorPrefix \o <<DecimalDigits[row][d + 1]>>

\* what the engine may print to run_large_shor
ShorLines ==
    {FactorLine(3), FactorLine(15538213), MeasLine(0, 3), ScriptFactorLine(10, 7)}

TxtState == <<"S", "t", "a", "t", "e", "[">>

\* "State[0]: 4607182418800975872,0": the amplitude 1.0 of state 0, as the
\* engine prints a state
StateLine == TxtState \o <<"0", "]", ":", " ", "4", "6", "0", "7", "1", "8", "2", "4", "1", "8", "8", "0", "0", "9", "7", "5", "8", "7", "2", ",", "0">>

\* state lines with an index that is no number, with no colon, and with a
\* negative number for the bits
BadIndexStateLine == TxtState \o <<"x", "]", ":", " ", "1">>
NoColonStateLine == TxtState \o <<"0", "]", " ", "1">>
NegativeStateLine == TxtState \o <<"0", "]", ":", " ", "-", "1", ",", "0">>

\* what the engine may print to run_multiverse_factoring
SieveLines ==
    {MeasLine(0, 17), MeasLine(0, 323), MeasLine(0, 5), TxtMeasuring, SeparatedLine(0, 7),
     StateLine, BadIndexStateLine, NoColonStateLine, NegativeStateLine}

SieveModuli == {FromInt(323), FromInt(21), FromInt(85)}

RECURSIVE DecBig(_, _)
\* the value of a run of decimal digits with underscores between them as a
\* number of any length, acc the value so far (Len(acc) < 0 is never true:
\* the test has acc computed at every digit)
DecBig(s, acc) ==
    IF s = <<>> \/ Len(acc) < 0 THEN acc
    ELSE IF s[1] = "_" THEN DecBig(SubSeq(s, 2, Len(s)), acc)
    ELSE DecBig(SubSeq(s, 2, Len(s)),
                BigAdd(BigMul(acc, 10), FromInt(DigitVal(s[1]))))

\* struct.pack('<Q', int(s)) raises: s is no integer (ValueError), or the
\* integer is negative or 2^64 or more (struct.error)
PackQRaises(s) ==
    \/ ~IntLiteral(s).ok
    \/ Len(DecBig(IntLiteral(s).body, <<>>)) > 8
    \/ IntLiteral(s).negative /\ DecBig(IntLiteral(s).body, <<>>) # <<>>

\* A line with "State[", lines 46-54, raises: parts = line.split(":"), idx =
\* int(parts[0].split("[")[1].split("]")[0]) (IndexError with no "[" before
\* the colon, ValueError), r_bits = int(parts[1].strip().split(",")[0])
\* (IndexError with no colon, ValueError), and r_bits is packed as an
\* unsigned 64-bit number.  None of the exceptions is caught.  Otherwise the
\* line is at most printed.
SieveStateRaises(parts) ==
    \/ Len(Split(parts[1], <<"[">>)) < 2
    \/ ~IntLiteral(Split(Split(parts[1], <<"[">>)[2], <<"]">>)[1]).ok
    \/ Len(parts) < 2
    \/ PackQRaises(Split(Strip(parts[2]), <<",">>)[1])

RECURSIVE SieveScan(_, _, _, _)
\* a line with "Measuring": meas_val = int(line.split("=>")[1].strip()), an
\* IndexError or ValueError is not caught; the value is printed as a factor
\* when meas_val > 1 and N % meas_val == 0
SieveMeasure(lines, k, n, acc, parts) ==
    IF Len(parts) < 2 \/ ~PyInt(Strip(parts[IF Len(parts) < 2 THEN 1 ELSE 2])).ok
    THEN [crashed |-> TRUE, reported |-> acc]
    ELSE SieveScan(lines, k + 1, n,
             IF PyInt(Strip(parts[2])).val > 1 /\ BigMod(n, PyInt(Strip(parts[2])).val) = 0
             THEN acc \cup {PyInt(Strip(parts[2])).val} ELSE acc)

\* the loop over output.splitlines() of run_multiverse_factoring from line k
\* on: a line with "State[" is decoded, then a line with "Measuring" is
\* read; acc holds the values printed as factors so far
SieveScan(lines, k, n, acc) ==
    IF k > Len(lines) THEN [crashed |-> FALSE, reported |-> acc]
    ELSE IF Contains(TxtState, lines[k]) /\ SieveStateRaises(Split(lines[k], <<":">>))
    THEN [crashed |-> TRUE, reported |-> acc]
    ELSE IF ~Contains(TxtMeasuring, lines[k]) THEN SieveScan(lines, k + 1, n, acc)
    ELSE SieveMeasure(lines, k, n, acc, Split(lines[k], TxtArrow))

RepInit ==
    /\ \/ r_script = "shor_large" /\ r_n = ShorLargeN
       \/ r_script = "sieve" /\ r_n \in SieveModuli
    /\ r_pc = "run"
    /\ r_trial = 0
    /\ r_factors = {}
    /\ r_out = <<>>
    /\ r_reported = {}

\* one trial of run_large_shor: the engine is run and every 'Factor found'
\* value of its output joins factors; after the last trial a non-empty
\* factors is printed as the factors found
ShorTrial ==
    \E lines \in SeqsUpTo(ShorLines, MaxLines) :
        /\ r_script = "shor_large"
        /\ r_pc = "run"
        /\ r_trial < ShorTrials
        /\ r_out' = lines
        /\ r_trial' = r_trial + 1
        /\ r_factors' = r_factors \cup FactorsIn(lines, 1)
        /\ IF r_trial + 1 = ShorTrials
           THEN r_pc' = "done" /\ r_reported' = r_factors \cup FactorsIn(lines, 1)
           ELSE UNCHANGED <<r_pc, r_reported>>
        /\ UNCHANGED <<r_script, r_n, runVars, verVars, encVars, extVars>>

\* a trial of run_large_shor whose subprocess.run raises: FileNotFoundError
\* when the engine file is missing, UnicodeDecodeError when the engine's
\* output is no UTF-8 text.  The call has no try around it: run_large_shor
\* ends there and prints neither the factors nor the failure.
ShorTrialRaises ==
    /\ r_script = "shor_large"
    /\ r_pc = "run"
    /\ r_trial < ShorTrials
    /\ r_pc' = "crashed"
    /\ UNCHANGED <<r_script, r_n, r_trial, r_factors, r_out, r_reported>>
    /\ UNCHANGED <<runVars, verVars, encVars, extVars>>

\* run_multiverse_factoring from mm.run on
SieveRun ==
    \E lines \in SeqsUpTo(SieveLines, MaxLines) :
        /\ r_script = "sieve"
        /\ r_pc = "run"
        /\ r_out' = lines
        /\ r_reported' = SieveScan(lines, 1, r_n, {}).reported
        /\ r_pc' = IF SieveScan(lines, 1, r_n, {}).crashed THEN "crashed" ELSE "done"
        /\ UNCHANGED <<r_script, r_n, r_trial, r_factors, runVars, verVars, encVars, extVars>>

InitReports == RepInit /\ RunIdle /\ VerIdle /\ EncIdle /\ ExtIdle

NextReports == ShorTrial \/ ShorTrialRaises \/ SieveRun

SpecReports == InitReports /\ [][NextReports]_vars

(***************************************************************************)
(* The body of the batch loop of solve_distributed up to the write of the  *)
(* program, one step per phase of the program                              *)
(***************************************************************************)
MaxActive == 3

\* the moduli whose programs are built: those of the runs and some whose
\* batches have 3 chunks, or 2 chunks after the first 1000
BuilderModuli ==
    Moduli \cup {FromInt(26569), BigMul(FromInt(81100), 81100), FromInt(40000)}

\* the batches of the run for n, as the for loop makes them
BatchesOf(n) ==
    {Batches(NumChunks(Limit(n)))[k] : k \in 1..Len(Batches(NumChunks(Limit(n))))}

\* the number of bytes of the program of a batch of active_chunks chunks
ProgramSize(active_chunks) ==
    8 * (Len(WeightsPhase) + Len(StoreModulus(FromInt(0))) + Len(HaltPhase)
         + active_chunks * (Len(InitPhase(1)) + Len(NeuralInitPhase(<<>>, 1))
                            + iters * Len(GroverRound(<<>>, 1)) + Len(MeasurePhase(1))))

\* What qbin_file holds when the body of the loop begins for batch: nothing
\* of this run in its first batch, and in a later batch the program the
\* iteration before wrote for its BATCH_SIZE chunks, which stays there
\* until line 178 opens the file again.  That program is named by its batch
\* and its number of bytes, not spelled out.
LeftInFile(batch) ==
    IF batch.start = 0 THEN <<>>
    ELSE [program_of |-> [start |-> batch.start - BATCH_SIZE, end |-> batch.start],
          bytes |-> ProgramSize(BATCH_SIZE)]

BldInit ==
    /\ b_n \in BuilderModuli
    /\ b_batch \in {b \in BatchesOf(b_n) : b.end - b.start <= MaxActive}
    /\ b_pc = "weights"
    /\ b_k = 0
    /\ b_program = <<>>
    /\ b_count = 0
    /\ b_instrs = <<>>
    /\ b_file = LeftInFile(b_batch)

active_chunks == b_batch.end - b_batch.start

\* program += each of the words, in order; struct.error of a make_instr
\* call ends the function
Emit(words, next_pc) ==
    IF \A j \in 1..Len(words) : words[j].ok
    THEN /\ b_program' = b_program \o BytesOf(words)
         /\ b_count' = b_count + Len(words)
         /\ b_instrs' = b_instrs \o [j \in 1..Len(words) |-> words[j].args]
         /\ b_pc' = next_pc
    ELSE /\ b_pc' = "crashed"
         /\ UNCHANGED <<b_program, b_count, b_instrs>>

EmitWeights ==
    /\ b_pc = "weights"
    /\ Emit(WeightsPhase, "init")
    /\ UNCHANGED <<b_n, b_batch, b_k, b_file>>
    /\ UNCHANGED <<runVars, verVars, encVars, repVars, stoVars, guiVars, auxVars>>

EmitInit ==
    /\ b_pc = "init"
    /\ Emit(InitPhase(active_chunks), "store_n")
    /\ UNCHANGED <<b_n, b_batch, b_k, b_file>>
    /\ UNCHANGED <<runVars, verVars, encVars, repVars, stoVars, guiVars, auxVars>>

EmitStoreN ==
    /\ b_pc = "store_n"
    /\ Emit(StoreModulus(b_n), "neural")
    /\ UNCHANGED <<b_n, b_batch, b_k, b_file>>
    /\ UNCHANGED <<runVars, verVars, encVars, repVars, stoVars, guiVars, auxVars>>

EmitNeuralInit ==
    /\ b_pc = "neural"
    /\ Emit(NeuralInitPhase(FromInt(b_batch.start), active_chunks), "search")
    /\ UNCHANGED <<b_n, b_batch, b_k, b_file>>
    /\ UNCHANGED <<runVars, verVars, encVars, repVars, stoVars, guiVars, auxVars>>

\* one round of "for k in range(iters)"
EmitRound ==
    /\ b_pc = "search"
    /\ b_k < iters
    /\ Emit(GroverRound(FromInt(b_batch.start), active_chunks), "search")
    /\ b_k' = b_k + 1
    /\ UNCHANGED <<b_n, b_batch, b_file>>
    /\ UNCHANGED <<runVars, verVars, encVars, repVars, stoVars, guiVars, auxVars>>

EmitMeasure ==
    /\ b_pc = "search"
    /\ b_k = iters
    /\ Emit(MeasurePhase(active_chunks), "halt")
    /\ UNCHANGED <<b_n, b_batch, b_k, b_file>>
    /\ UNCHANGED <<runVars, verVars, encVars, repVars, stoVars, guiVars, auxVars>>

EmitHalt ==
    /\ b_pc = "halt"
    /\ Emit(HaltPhase, "write")
    /\ UNCHANGED <<b_n, b_batch, b_k, b_file>>
    /\ UNCHANGED <<runVars, verVars, encVars, repVars, stoVars, guiVars, auxVars>>

\* with open(qbin_file, "wb") as f: f.write(program)
WriteProgram ==
    /\ b_pc = "write"
    /\ b_file' = b_program
    /\ b_pc' = "written"
    /\ UNCHANGED <<b_n, b_batch, b_k, b_program, b_count, b_instrs>>
    /\ UNCHANGED <<runVars, verVars, encVars, repVars, stoVars, guiVars, auxVars>>

InitBuilder ==
    BldInit /\ RunIdle /\ VerIdle /\ EncIdle /\ RepIdle /\ StoIdle /\ GuiIdle /\ AuxIdle

NextBuilder ==
    \/ EmitWeights
    \/ EmitInit
    \/ EmitStoreN
    \/ EmitNeuralInit
    \/ EmitRound
    \/ EmitMeasure
    \/ EmitHalt
    \/ WriteProgram

SpecBuilder == InitBuilder /\ [][NextBuilder]_vars

(***************************************************************************)
(* The store of the modulus on its own, for moduli of any length           *)
(***************************************************************************)
MaxModulusBytes == 9

\* the byte values the moduli are made of
ModulusBytes == {0, 1, 255}

\* the integers n >= 2 of at most MaxModulusBytes bytes made of these bytes
StoreModuli ==
    {n \in SeqsUpTo(ModulusBytes, MaxModulusBytes) :
        /\ n # <<>>
        /\ n[Len(n)] # 0
        /\ n # <<1>>}

StoInit == s_n \in StoreModuli /\ s_words = <<>>

StoreN ==
    /\ s_words = <<>>
    /\ s_words' = StoreModulus(s_n)
    /\ UNCHANGED s_n
    /\ UNCHANGED <<runVars, verVars, encVars, repVars, bldVars, guiVars, auxVars>>

InitStore ==
    StoInit /\ RunIdle /\ VerIdle /\ EncIdle /\ RepIdle /\ BldIdle /\ GuiIdle /\ AuxIdle

NextStore == StoreN

SpecStore == InitStore /\ [][NextStore]_vars

(***************************************************************************)
(* shor_gui.ShorFactoringGUI: generate_qbin and the execute_engine thread  *)
(***************************************************************************)
OP_LOAD_N_PART == 41

OP_SHOR_INIT == 32

OP_MOD_EXP == 33

OP_QFT == 34

OP_REALITY_COLLAPSE == 42

\* the default of the qutrits entry
GuiQutrits == 10

\* LoadParts with temp_n >>= 16: the parts overlap
LoadPartsShift16(n) ==
    [j \in 1..((Len(n) + 1) \div 2) |->
        pack_instruction(OP_LOAD_N_PART, j - 1, Half(n, j - 1), Half(n, j))]

\* 1. Load N in 32-bit parts: one word for each part of n while temp_n > 0
LoadParts(n) ==
    [j \in 1..((Len(n) + 3) \div 4) |->
        pack_instruction(OP_LOAD_N_PART, j - 1, Half(n, 2 * (j - 1)), Half(n, 2 * (j - 1) + 1))]

\* generate_qbin: the words in order (pack_instruction of shor_gui packs
\* '<HHHH' as the one of shor_factor does); the first struct.error ends it.
\* Nothing compares the chunk count with a limit.
generate_qbin(n, chunks, qutrits_per_chunk) ==
    IF ~pack_instruction(OP_SHOR_INIT, chunks, Half(n, 0), qutrits_per_chunk).ok
    THEN [ok |-> FALSE, size |-> 0, parts |-> <<>>]
    ELSE [ok |-> \A i \in 0..(chunks - 1) : pack_instruction(OP_MOD_EXP, i, 0, 0).ok,
          size |-> 8 * (Len(LoadParts(n)) + 1 + chunks + 3),
          parts |-> LoadParts(n)]

\* the chunk limit of the engine, which differs between its builds: 1024
\* (brain_factor_distributed) or 4096 (gen_true_crash)
EngineLimits == {1024, 4096}

\* the chunk counts entered: the default 8, and counts around the limits
\* and around the width of the target field
GuiChunks == {8, 1024, 1025, 4097, 65536}

\* the moduli entered: of one part, of two, and of three with a part of 0
GuiModuli ==
    {FromInt(15), FromInt(21), ShorLargeN, <<0, 0, 0, 0, 1>>, <<1, 0, 0, 0, 0, 0, 0, 0, 1>>}

GuiInit ==
    /\ g_n \in GuiModuli
    /\ g_chunks \in GuiChunks
    /\ g_limit \in EngineLimits
    /\ g_pc = "entered"
    /\ g_size = 0
    /\ g_tmp = "none"
    /\ g_launched = FALSE
    /\ g_log = "none"
    /\ g_parts = <<>>
    /\ g_btn = "normal"
    /\ g_after = FALSE

\* run_factoring with integer entries: the button is disabled, the start is
\* logged and the execute_engine thread is started
GuiRunFactoring ==
    /\ g_pc = "entered"
    /\ g_btn = "normal"
    /\ g_btn' = "disabled"
    /\ g_log' = "start"
    /\ g_pc' = "thread"
    /\ UNCHANGED <<g_n, g_chunks, g_limit, g_size, g_tmp, g_launched, g_parts, g_after>>
    /\ UNCHANGED <<runVars, verVars, encVars, repVars, bldVars, stoVars, auxVars>>

\* execute_engine up to the try: the program is generated (a struct.error
\* ends the thread: these lines are outside the try) and written to a
\* NamedTemporaryFile
GuiWriteProgram ==
    /\ g_pc = "thread"
    /\ IF generate_qbin(g_n, g_chunks, GuiQutrits).ok
       THEN /\ g_size' = generate_qbin(g_n, g_chunks, GuiQutrits).size
            /\ g_parts' = generate_qbin(g_n, g_chunks, GuiQutrits).parts
            /\ g_tmp' = "written"
            /\ g_pc' = "running"
       ELSE /\ g_pc' = "crashed"
            /\ UNCHANGED <<g_size, g_tmp, g_parts>>
    /\ UNCHANGED <<g_n, g_chunks, g_limit, g_launched, g_log, g_btn, g_after>>
    /\ UNCHANGED <<runVars, verVars, encVars, repVars, bldVars, stoVars, auxVars>>

\* the engine file is missing: the attempt is logged and the thread waits
\* for the build command
GuiBuild ==
    /\ g_pc = "running"
    /\ g_log' = "build"
    /\ g_pc' = "building"
    /\ UNCHANGED <<g_n, g_chunks, g_limit, g_size, g_tmp, g_launched, g_parts, g_btn,
                   g_after>>
    /\ UNCHANGED <<runVars, verVars, encVars, repVars, bldVars, stoVars, auxVars>>

\* the engine file exists, or the build succeeded: chmod, and Popen starts
\* the engine process; the thread reads its output
GuiLaunch ==
    /\ g_pc \in {"running", "building"}
    /\ g_launched' = TRUE
    /\ g_pc' = "waiting"
    /\ UNCHANGED <<g_n, g_chunks, g_limit, g_size, g_tmp, g_log, g_parts, g_btn, g_after>>
    /\ UNCHANGED <<runVars, verVars, encVars, repVars, bldVars, stoVars, auxVars>>

\* The end of the try statement: message is logged, and the finally clause
\* removes the file and schedules the callback that enables the button.
GuiFinish(message) ==
    /\ g_log' = message
    /\ g_tmp' = "removed"
    /\ g_after' = TRUE
    /\ g_pc' = "done"
    /\ UNCHANGED <<g_n, g_chunks, g_limit, g_size, g_launched, g_parts, g_btn>>
    /\ UNCHANGED <<runVars, verVars, encVars, repVars, bldVars, stoVars, auxVars>>

\* an exception before the engine runs (the build fails, chmod or Popen
\* raises): except Exception logs it
GuiLaunchError == g_pc \in {"running", "building"} /\ GuiFinish("exec_error")

\* the engine prints a line, which is logged, and runs on
GuiLogLine ==
    /\ g_pc = "waiting"
    /\ g_log' = "line"
    /\ UNCHANGED <<g_n, g_chunks, g_limit, g_pc, g_size, g_tmp, g_launched, g_parts,
                   g_btn, g_after>>
    /\ UNCHANGED <<runVars, verVars, encVars, repVars, bldVars, stoVars, auxVars>>

\* the engine prints bytes that are no UTF-8 text: the for loop over
\* process.stdout raises UnicodeDecodeError, which except Exception logs
GuiDecodeError == g_pc = "waiting" /\ GuiFinish("exec_error")

\* the engine's output ends and process.wait() returns 0
GuiExitZero == g_pc = "waiting" /\ GuiFinish("success")

\* the engine's output ends and process.wait() returns another code
GuiExitNonZero == g_pc = "waiting" /\ GuiFinish("error_exit")

\* the main loop runs the callback: run_btn.config(state=tk.NORMAL)
GuiAfter ==
    /\ g_after
    /\ g_after' = FALSE
    /\ g_btn' = "normal"
    /\ UNCHANGED <<g_n, g_chunks, g_limit, g_pc, g_size, g_tmp, g_launched, g_log, g_parts>>
    /\ UNCHANGED <<runVars, verVars, encVars, repVars, bldVars, stoVars, auxVars>>

InitGui ==
    GuiInit /\ RunIdle /\ VerIdle /\ EncIdle /\ RepIdle /\ BldIdle /\ StoIdle /\ AuxIdle

NextGui ==
    \/ GuiRunFactoring
    \/ GuiWriteProgram
    \/ GuiBuild
    \/ GuiLaunch
    \/ GuiLaunchError
    \/ GuiLogLine
    \/ GuiDecodeError
    \/ GuiExitZero
    \/ GuiExitNonZero
    \/ GuiAfter

SpecGui == InitGui /\ [][NextGui]_vars

(***************************************************************************)
(* The range of solve_distributed for moduli of any length                 *)
(***************************************************************************)
MaxRangeN == 60

RECURSIVE NoDivisorFrom(_, _)
\* no d' with d <= d' and d' * d' <= x divides x
NoDivisorFrom(x, d) == d * d > x \/ (x % d # 0 /\ NoDivisorFrom(x, d + 1))

IsPrime(x) == x >= 2 /\ NoDivisorFrom(x, 2)

\* square roots of the large moduli, least significant byte first: the
\* prime 11399736556787077, 9007199254741113 and 9021347408166075 above
\* 2^53, 3^40, powers of two, and smaller values
RangeRoots ==
    {<<133, 21, 0, 0, 0, 128, 40>>,
     <<121, 0, 0, 0, 0, 0, 32>>,
     <<187, 188, 168, 31, 222, 12, 32>>,
     <<33, 232, 31, 41, 82, 180, 184, 168>>,
     Shl(<<1>>, 53), Shl(<<1>>, 52), Shl(<<1>>, 27), Shl(<<1>>, 60),
     FromInt(94906266), FromInt(1000003), FromInt(81000)}

\* the composite moduli drawn: the small ones, r * r, r * r - 1 and
\* r * (r + 2) for the roots r, and one no double can hold
RangeModuli ==
    {FromInt(i) : i \in {x \in 4..MaxRangeN : ~IsPrime(x)}}
    \cup {BigMulBig(r, r) : r \in RangeRoots}
    \cup {BigSub(BigMulBig(r, r), <<1>>) : r \in RangeRoots}
    \cup {BigMulBig(r, BigAdd(r, <<2>>)) : r \in RangeRoots}
    \cup {ThreeHugePrime}

RngInit == q_n \in RangeModuli /\ q_pc = "init" /\ q_limit = <<>> /\ q_chunks = <<>>

\* solve_distributed up to the for loop
RangeStart ==
    /\ q_pc = "init"
    /\ q_limit' = RangeOf(q_n).limit
    /\ q_chunks' = RangeOf(q_n).num_chunks
    /\ q_pc' = IF RangeOf(q_n).raised THEN "crashed" ELSE "loop"
    /\ UNCHANGED q_n
    /\ UNCHANGED <<runVars, verVars, encVars, repVars, bldVars, stoVars, guiVars, shorVars, offVars>>

InitRange ==
    /\ RngInit /\ ShorIdle /\ OffIdle
    /\ RunIdle /\ VerIdle /\ EncIdle /\ RepIdle /\ BldIdle /\ StoIdle /\ GuiIdle

NextRange == RangeStart

SpecRange == InitRange /\ [][NextRange]_vars

(***************************************************************************)
(* shor_factor.  N is a number of any length; the trials are modelled for  *)
(* N below 2^12.                                                           *)
(***************************************************************************)
MaxShorN == 13

MaxTrials == 2

\* the argument max_trials of shor_factor(N, max_trials=10, verbose=True)
max_trials == MaxTrials

\* the value of a number of at most 3 bytes
ToInt(n) ==
    (IF Len(n) >= 1 THEN n[1] ELSE 0) + 256 * (IF Len(n) >= 2 THEN n[2] ELSE 0)
    + 65536 * (IF Len(n) >= 3 THEN n[3] ELSE 0)

RECURSIVE GCD(_, _)
\* math.gcd for a, b >= 0
GCD(a, b) == IF b = 0 THEN a ELSE GCD(b, a % b)

RECURSIVE ModExp(_, _, _)
Sq(x, md) == (x * x) % md

\* pow(a, e, md)
ModExp(a, e, md) ==
    IF e = 0 THEN 1 % md
    ELSE IF e % 2 = 0 THEN Sq(ModExp(a, e \div 2, md), md)
    ELSE (a * ModExp(a, e - 1, md)) % md

RECURSIVE IPow(_, _)
IPow(r, k) == IF k = 0 THEN 1 ELSE r * IPow(r, k - 1)

RECURSIVE FloorLog2(_)
\* int(math.log2(N)) for N >= 1
FloorLog2(x) == IF x < 2 THEN 0 ELSE 1 + FloorLog2(x \div 2)

RECURSIVE RootFrom(_, _, _)
\* the least r' >= r with (2 r' + 1)^k > 2^k x
RootFrom(x, k, r) ==
    IF IPow(2 * r + 1, k) > IPow(2, k) * x THEN r ELSE RootFrom(x, k, r + 1)

\* int(round(N ** (1/k))): the integer nearest to the k-th root (the root of
\* an integer is never half way between two integers, and for N below 2^12
\* the double is far closer to it than to the half-way point)
RoundRoot(x, k) == RootFrom(x, k, 0)

\* the first r of [root-1, root, root+1] with r > 1 and r ** k == N, 0 when
\* there is none
RootHit(x, k, root) ==
    IF root - 1 > 1 /\ IPow(root - 1, k) = x THEN root - 1
    ELSE IF root > 1 /\ IPow(root, k) = x THEN root
    ELSE IF root + 1 > 1 /\ IPow(root + 1, k) = x THEN root + 1
    ELSE 0

RECURSIVE PowerFrom(_, _)
\* the loop "for k in range(2, int(math.log2(N)) + 1)" from k on: the root
\* returned, 0 when the loop ends
PowerFrom(x, k) ==
    IF k > FloorLog2(x) THEN 0
    ELSE IF RootHit(x, k, RoundRoot(x, k)) # 0 THEN RootHit(x, k, RoundRoot(x, k))
    ELSE PowerFrom(x, k + 1)

small_primes == <<3, 5, 7, 11, 13, 17, 19, 23, 29, 31, 37, 41, 43, 47>>

RECURSIVE SmallPrimeFrom(_, _)
\* the loop over small_primes from index j on, for N given by its bytes: the
\* prime returned, 0 when the loop ends
SmallPrimeFrom(n, j) ==
    IF j > Len(small_primes) THEN 0
    ELSE IF BigMod(n, small_primes[j]) = 0 /\ n # FromInt(small_primes[j])
         THEN small_primes[j]
         ELSE SmallPrimeFrom(n, j + 1)

\* classical_preprocess(N) for N >= 2 below 2^12 or N >= 2^1024 - 2^970:
\* (is_trivial, factor), or raised when N ** (1/k) cannot convert N to a
\* double (k = 2 is reached for every odd N >= 4)
classical_preprocess(n) ==
    IF ~IsOdd(n) THEN [raised |-> FALSE, trivial |-> TRUE, factor |-> 2]
    ELSE IF FloatOverflow(n) THEN [raised |-> TRUE, trivial |-> FALSE, factor |-> 0]
    ELSE IF PowerFrom(ToInt(n), 2) # 0
    THEN [raised |-> FALSE, trivial |-> TRUE, factor |-> PowerFrom(ToInt(n), 2)]
    ELSE IF SmallPrimeFrom(n, 1) # 0
    THEN [raised |-> FALSE, trivial |-> TRUE, factor |-> SmallPrimeFrom(n, 1)]
    ELSE [raised |-> FALSE, trivial |-> FALSE, factor |-> 0]

\* the first factor of [p, q] with factor not in [1, N] and N % factor == 0,
\* 0 when there is none
FirstFactor(N, p, q) ==
    IF p # 1 /\ p # N /\ N % p = 0 THEN p
    ELSE IF q # 1 /\ q # N /\ N % q = 0 THEN q
    ELSE 0

\* "other = N // factor; if factor * other == N: return (min(factor, other),
\* max(factor, other))" for a factor found, (None, None) for fac = 0
Sorted(N, fac) ==
    IF fac = 0 \/ fac * (N \div fac) # N THEN [ok |-> FALSE, p |-> 0, q |-> 0]
    ELSE [ok |-> TRUE,
          p |-> IF fac < N \div fac THEN fac ELSE N \div fac,
          q |-> IF fac < N \div fac THEN N \div fac ELSE fac]

\* the pair of factor_from_period for x = pow(a, r // 2, N): p = gcd(x + 1,
\* N), q = gcd(x - 1, N), where gcd(-1, N) = 1 for x = 0
PairOf(N, x) ==
    IF x = N - 1 THEN [ok |-> FALSE, p |-> 0, q |-> 0]
    ELSE Sorted(N, FirstFactor(N, GCD(x + 1, N), GCD(IF x = 0 THEN 1 ELSE x - 1, N)))

\* factor_from_period(N, a, r): ok = FALSE for (None, None)
factor_from_period(N, a, r) ==
    IF r = 0 \/ r % 2 # 0 THEN [ok |-> FALSE, p |-> 0, q |-> 0]
    ELSE PairOf(N, ModExp(a, r \div 2, N))

\* the periods of rs that pass "pow(a, r, N) == 1" and give factors
Passing(N, a, rs) ==
    {r \in rs : ModExp(a, r, N) = 1 /\ factor_from_period(N, a, r).ok}

Least(S) == CHOOSE r \in S : \A t \in S : r <= t

\* The end of a trial with a measurement: the sorted candidates are tested
\* in order and the first that passes is returned; when none passes and N <
\* 100000 and verbose, r = 2, 3, ... below min(N, 10000) are tested alike.
\* ok = FALSE when the trial ends with no return.
TestPeriods(N, a, cands, verbose) ==
    IF Passing(N, a, cands) # {}
    THEN factor_from_period(N, a, Least(Passing(N, a, cands)))
    ELSE IF N < 100000 /\ verbose
            /\ Passing(N, a, 2..((IF N < 10000 THEN N ELSE 10000) - 1)) # {}
    THEN factor_from_period(N, a,
             Least(Passing(N, a, 2..((IF N < 10000 THEN N ELSE 10000) - 1))))
    ELSE [ok |-> FALSE, p |-> 0, q |-> 0]

\* the moduli: 2..MaxShorN, the tested semiprimes, 53 * 53, 53 * 59 whose
\* primes are above the listed ones, and three times the huge prime
ShorModuli ==
    {FromInt(i) : i \in 2..MaxShorN}
    \cup {FromInt(i) : i \in {15, 21, 35, 77, 143, 221, 2809, 3127}}
    \cup {ThreeHugePrime}

\* the bases random.randint(2, N - 1) is drawn from in the model
Bases(N) == IF N <= MaxShorN THEN 2..(N - 1) ELSE {2, 53, N - 1}

\* the values run_quantum_period_finding returns in the model: a period
\* candidate or a phase read from the engine's output, here 0..N for N <=
\* MaxShorN, and 0, 2, the order 1508 of 2 modulo 3127, its half and its
\* double otherwise
Measured(N) == IF N <= MaxShorN THEN 0..N ELSE {0, 2, 754, 1508, 3016}

\* period_candidates after "deduplicate and filter" for 0 <= measured <= N
\* and N < 2^12, as a set.  Q = 3 ** (register size * 10) is at least 3^20,
\* so Q // measured exceeds N: measured / Q is nearer to 0 than to any
\* fraction of a denominator up to N, its first convergent has a denominator
\* above N, and no multiple of Q // measured is kept.  What is left are the
\* divisors of measured (s // divisor, measured // d and d) and measured *
\* r_mult for r_mult below 20, between 2 and N.
Candidates(N, measured) ==
    IF measured = 0 THEN {}
    ELSE {r \in 2..N : measured % r = 0 \/ (r % measured = 0 /\ r \div measured < 20)}

ShorInit ==
    /\ f_n \in ShorModuli
    /\ f_verbose \in BOOLEAN
    /\ f_pc = "start"
    /\ f_trial = 0
    /\ f_a = 0
    /\ f_measured = -1
    /\ f_ret = "none"
    /\ f_p = 0
    /\ f_q = <<>>
    /\ f_engine = 0

\* shor_factor up to the trials: classical_preprocess, and the return of
\* (trivial_factor, N // trivial_factor)
ShorPreprocess ==
    /\ f_pc = "start"
    /\ IF classical_preprocess(f_n).raised
       THEN /\ f_pc' = "crashed"
            /\ UNCHANGED <<f_ret, f_p, f_q>>
       ELSE IF classical_preprocess(f_n).trivial
       THEN /\ f_pc' = "done"
            /\ f_ret' = "pair"
            /\ f_p' = classical_preprocess(f_n).factor
            /\ f_q' = BigFloorDiv(f_n, classical_preprocess(f_n).factor)
       ELSE /\ f_pc' = "trial"
            /\ UNCHANGED <<f_ret, f_p, f_q>>
    /\ UNCHANGED <<f_n, f_verbose, f_trial, f_a, f_measured, f_engine>>
    /\ UNCHANGED <<runVars, verVars, encVars, repVars, bldVars, stoVars, guiVars, rngVars, offVars>>

\* a trial whose base shares a factor with N: return g, N // g
ShorLucky ==
    /\ f_pc = "trial"
    /\ f_trial < max_trials
    /\ \E a \in Bases(ToInt(f_n)) :
        /\ GCD(a, ToInt(f_n)) > 1
        /\ f_a' = a
        /\ f_p' = GCD(a, ToInt(f_n))
        /\ f_q' = FromInt(ToInt(f_n) \div GCD(a, ToInt(f_n)))
    /\ f_ret' = "pair"
    /\ f_pc' = "done"
    /\ UNCHANGED <<f_n, f_verbose, f_trial, f_measured, f_engine>>
    /\ UNCHANGED <<runVars, verVars, encVars, repVars, bldVars, stoVars, guiVars, rngVars, offVars>>

\* a trial whose engine run gives no measurement (timeout, engine missing,
\* nothing to parse): continue
ShorNoMeasurement ==
    /\ f_pc = "trial"
    /\ f_trial < max_trials
    /\ \E a \in Bases(ToInt(f_n)) :
        /\ GCD(a, ToInt(f_n)) = 1
        /\ f_a' = a
    /\ f_measured' = -1
    /\ f_engine' = f_engine + 1
    /\ f_trial' = f_trial + 1
    /\ UNCHANGED <<f_n, f_verbose, f_pc, f_ret, f_p, f_q>>
    /\ UNCHANGED <<runVars, verVars, encVars, repVars, bldVars, stoVars, guiVars, rngVars, offVars>>

\* a trial whose subprocess.run raises what run_quantum_period_finding does
\* not catch (UnicodeDecodeError for output that is no UTF-8 text,
\* PermissionError for an engine file that cannot be executed): shor_factor
\* ends with that exception
ShorEngineRaises ==
    /\ f_pc = "trial"
    /\ f_trial < max_trials
    /\ \E a \in Bases(ToInt(f_n)) :
        /\ GCD(a, ToInt(f_n)) = 1
        /\ f_a' = a
    /\ f_engine' = f_engine + 1
    /\ f_pc' = "crashed"
    /\ UNCHANGED <<f_n, f_verbose, f_trial, f_measured, f_ret, f_p, f_q>>
    /\ UNCHANGED <<runVars, verVars, encVars, repVars, bldVars, stoVars, guiVars, rngVars, offVars>>

\* a trial whose engine run gives a measurement
ShorMeasured ==
    /\ f_pc = "trial"
    /\ f_trial < max_trials
    /\ \E a \in Bases(ToInt(f_n)), measured \in Measured(ToInt(f_n)) :
        /\ GCD(a, ToInt(f_n)) = 1
        /\ f_a' = a
        /\ f_measured' = measured
        /\ IF TestPeriods(ToInt(f_n), a, Candidates(ToInt(f_n), measured), f_verbose).ok
           THEN /\ f_ret' = "pair"
                /\ f_p' = TestPeriods(ToInt(f_n), a,
                                      Candidates(ToInt(f_n), measured), f_verbose).p
                /\ f_q' = FromInt(TestPeriods(ToInt(f_n), a,
                                      Candidates(ToInt(f_n), measured), f_verbose).q)
                /\ f_pc' = "done"
                /\ UNCHANGED f_trial
           ELSE /\ f_trial' = f_trial + 1
                /\ UNCHANGED <<f_pc, f_ret, f_p, f_q>>
    /\ f_engine' = f_engine + 1
    /\ UNCHANGED <<f_n, f_verbose>>
    /\ UNCHANGED <<runVars, verVars, encVars, repVars, bldVars, stoVars, guiVars, rngVars, offVars>>

\* after max_trials trials: return None, None
ShorGiveUp ==
    /\ f_pc = "trial"
    /\ f_trial = max_trials
    /\ f_ret' = "nothing"
    /\ f_pc' = "done"
    /\ UNCHANGED <<f_n, f_verbose, f_trial, f_a, f_measured, f_p, f_q, f_engine>>
    /\ UNCHANGED <<runVars, verVars, encVars, repVars, bldVars, stoVars, guiVars, rngVars, offVars>>

InitShor ==
    /\ ShorInit /\ RngIdle /\ OffIdle
    /\ RunIdle /\ VerIdle /\ EncIdle /\ RepIdle /\ BldIdle /\ StoIdle /\ GuiIdle

NextShor ==
    \/ ShorPreprocess
    \/ ShorLucky
    \/ ShorNoMeasurement
    \/ ShorEngineRaises
    \/ ShorMeasured
    \/ ShorGiveUp

SpecShor == InitShor /\ [][NextShor]_vars

(***************************************************************************)
(* The offset of one chunk, as a round of the search loop stores it for    *)
(* the engine and as the parser adds it to a value measured on the chunk,  *)
(* for a chunk at any distance from 0: batch_start, the offset and the     *)
(* candidate are numbers of any length                                     *)
(***************************************************************************)
MaxOffsetBits == 65

\* the moduli of the runs: 323, 81100^2 and powers of two up to one whose
\* range holds an offset of more than MaxOffsetBits bits
OffsetModuli ==
    {FromInt(323), BigMul(FromInt(81100), 81100), Shl(<<1>>, 40), Shl(<<1>>, 66),
     Shl(<<1>>, 100), Shl(<<1>>, 2 * MaxOffsetBits + 2)}

\* the last chunk whose offset chunk_id * chunk_states is below 2^k
EdgeChunk(k) == BigFloorDiv(Shl(<<1>>, k), chunk_states)

\* the chunk ids drawn: the first chunks of the first two batches, and the
\* chunks on either side of an offset of 2^16, 2^32, 2^48, 2^64 and
\* 2^MaxOffsetBits, with the chunk one batch after the one past 2^64
OffsetChunks ==
    {FromInt(i) : i \in {0, 1, BATCH_SIZE - 1, BATCH_SIZE, BATCH_SIZE + 1}}
    \cup {EdgeChunk(k) : k \in {16, 32, 48, 64, MaxOffsetBits}}
    \cup {BigAdd(EdgeChunk(k), <<1>>) : k \in {16, 32, 48, 64, MaxOffsetBits}}
    \cup {BigAdd(EdgeChunk(64), FromInt(BATCH_SIZE + 1))}

\* the chunks of the run for n: range(0, num_chunks, BATCH_SIZE) and
\* batch_end give every chunk id below num_chunks to one batch
ChunksOf(n) ==
    IF RangeOf(n).raised THEN {}
    ELSE {ch \in OffsetChunks : BigCmp(ch, RangeOf(n).num_chunks) < 0}

\* batch_start of the batch of the chunk: the value of range(0, num_chunks,
\* BATCH_SIZE) at or next below the chunk id
BatchStartOf(chunk) == BigSub(chunk, FromInt(BigMod(chunk, BATCH_SIZE)))

\* the local values the engine reports
OffsetValues == {0, 1, chunk_states - 1}

\* global_offset = (batch_start + c_idx) * chunk_states
GlobalOffset(bs, c_idx) == BigMul(BigAdd(bs, FromInt(c_idx)), chunk_states)

\* the loop has come to chunk c of a batch of the run for n
OffInit ==
    /\ o_n \in OffsetModuli
    /\ \E chunk \in ChunksOf(o_n) :
        /\ o_start = BatchStartOf(chunk)
        /\ o_c = BigMod(chunk, BATCH_SIZE)
    /\ o_pc = "build"
    /\ o_words = <<>>
    /\ o_val = 0
    /\ o_global = <<>>
    /\ o_candidate = <<>>

\* the body of "for c in range(active_chunks)" in a round of the search
\* loop, lines 157-168, for chunk c: the store pair of the offset and the
\* two oracle words; struct.error of a make_instr call ends the function
OffEmit ==
    /\ o_pc = "build"
    /\ o_words' = BytesOf(GroverFrom(o_c, o_start, o_c + 1))
    /\ o_pc' = IF \A j \in 1..Len(GroverFrom(o_c, o_start, o_c + 1)) :
                    GroverFrom(o_c, o_start, o_c + 1)[j].ok
               THEN "run" ELSE "crashed"
    /\ UNCHANGED <<o_n, o_start, o_c, o_val, o_global, o_candidate>>
    /\ UNCHANGED <<runVars, verVars, encVars, repVars, bldVars, stoVars, guiVars, rngVars, shorVars>>

\* the parser, lines 193-205, on the line "[MEAS] Measuring chunk <c> => <v>"
\* the engine prints for the chunk
OffParse ==
    /\ o_pc = "run"
    /\ \E v \in OffsetValues :
        /\ ParseFields(MeasLine(o_c, v)).has
        /\ o_val' = ParseFields(MeasLine(o_c, v)).val_local
        /\ o_global' = GlobalOffset(o_start, ParseFields(MeasLine(o_c, v)).c_idx)
        /\ o_candidate' =
            BigAdd(FromInt(ParseFields(MeasLine(o_c, v)).val_local),
                   GlobalOffset(o_start, ParseFields(MeasLine(o_c, v)).c_idx))
    /\ o_pc' = "parsed"
    /\ UNCHANGED <<o_n, o_start, o_c, o_words>>
    /\ UNCHANGED <<runVars, verVars, encVars, repVars, bldVars, stoVars, guiVars, rngVars, shorVars>>

InitOffset ==
    /\ OffInit /\ RngIdle /\ ShorIdle
    /\ RunIdle /\ VerIdle /\ EncIdle /\ RepIdle /\ BldIdle /\ StoIdle /\ GuiIdle

NextOffset == OffEmit \/ OffParse

SpecOffset == InitOffset /\ [][NextOffset]_vars

(***************************************************************************)
(* Properties                                                              *)
(***************************************************************************)
\* ceil(sqrt(n))
CeilSqrt(n) ==
    IF BigCmp(BigSquare(IntSqrt(n)), n) = 0 THEN IntSqrt(n) ELSE IntSqrt(n) + 1

\* the candidates of a batch are the integers BlockLo .. BlockHi - 1
BlockLo(b) == b.start * chunk_states

BlockHi(b) == b.end * chunk_states

\* the blocks follow one another from 0 on: no gap, no overlap, none empty
Contiguous(B) ==
    /\ B # <<>>
    /\ B[1].start = 0
    /\ \A k \in 1..Len(B) :
        /\ B[k].start < B[k].end
        /\ k > 1 => B[k].start = B[k - 1].end

\* the integers at the edges of the blocks and of the interval
EdgePoints(B, top) ==
    {0, top - 1} \cup {BlockLo(B[k]) : k \in 1..Len(B)}
    \cup {BlockHi(B[k]) - 1 : k \in 1..Len(B)}

\* x lies in exactly one block
InOneBlock(B, x) ==
    Cardinality({k \in 1..Len(B) : BlockLo(B[k]) <= x /\ x < BlockHi(B[k])}) = 1

\* C1 as stated: the blocks of a run cover [0, ceil(sqrt(N))) exactly, with
\* no gap, no overlap, and no integer outside the interval.
C1_ExactCover ==
    pc \in {"loop", "done", "crashed"} =>
        /\ Contiguous(Batches(num_chunks))
        /\ BlockHi(Batches(num_chunks)[Len(Batches(num_chunks))]) = CeilSqrt(n_val)

\* C1 amended: the blocks of a run follow one another from 0 with no gap and
\* no overlap, every integer of [0, ceil(sqrt(N))) lies in exactly one block,
\* and their union is [0, num_chunks * chunk_states), which ends at most
\* chunk_states integers after ceil(sqrt(N)); the batches launched are the
\* first of these blocks, in order.
C1_AlignedCover ==
    pc \in {"loop", "done", "crashed"} =>
        LET B == Batches(num_chunks)
            top == CeilSqrt(n_val)
        IN  /\ Contiguous(B)
            /\ B[Len(B)].end = num_chunks
            /\ BlockHi(B[Len(B)]) >= top
            /\ BlockHi(B[Len(B)]) - top <= chunk_states
            /\ \A x \in EdgePoints(B, top) : x < top => InOneBlock(B, x)
            /\ Len(launched) <= Len(B)
            /\ \A k \in 1..Len(launched) : launched[k] = B[k]

\* C1 witness: a run over two blocks that launched both
C1_Witness ==
    /\ pc = "done"
    /\ Len(launched) = 2
    /\ launched = Batches(num_chunks)
    /\ launched[2].start = BATCH_SIZE

\* C2 as stated: every value a script prints as a factor found satisfies
\* 1 < factor < N and N mod factor = 0.
C2_ReportedAreVerified == \A f \in r_reported : IsFactor(r_n, f)

\* the first line of the output that reports a candidate that verifies, 0
\* when there is none
FirstValidLine(lines, bs, n) ==
    LET valid == {k \in 1..Len(lines) :
                     /\ ParseLine(lines[k], bs).has
                     /\ IsFactor(n, ParseLine(lines[k], bs).candidate)}
    IN  IF valid = {} THEN 0 ELSE CHOOSE k \in valid : \A j \in valid : k <= j

\* the batch of the iteration run last
LastBatch == launched[Len(launched)]

\* C3: of the valid factors reported in one output exactly one is accepted,
\* the first in output order; once the result is set it is never replaced,
\* and the run ends normally.
C3_FirstReportWins ==
    /\ [](report = "success" =>
            /\ pc = "done"
            /\ FirstValidLine(output, LastBatch.start, n_val) # 0
            /\ factor = ParseLine(output[FirstValidLine(output, LastBatch.start, n_val)],
                                  LastBatch.start).candidate
            /\ checked[Len(checked)] = factor
            /\ \A k \in 1..(Len(checked) - 1) : ~IsFactor(n_val, checked[k]))
    /\ [][report = "success" =>
            report' = "success" /\ factor' = factor /\ cofactor' = cofactor]_vars

\* C3 witness: two chunks report two different valid factors in one output
\* and the first is the result
C3_Witness ==
    /\ report = "success"
    /\ Len(output) = 2
    /\ ParseLine(output[1], LastBatch.start).has
    /\ ParseLine(output[2], LastBatch.start).has
    /\ IsFactor(n_val, ParseLine(output[1], LastBatch.start).candidate)
    /\ IsFactor(n_val, ParseLine(output[2], LastBatch.start).candidate)
    /\ ParseLine(output[1], LastBatch.start).c_idx # ParseLine(output[2], LastBatch.start).c_idx
    /\ factor = ParseLine(output[1], LastBatch.start).candidate

\* C4 as stated: the search stops before its last block for no other reason
\* than a verified factor.
C4_OnlySuccessStopsEarly ==
    (pc \in {"done", "crashed"} /\ report # "success") =>
        Len(launched) = Len(Batches(num_chunks))

\* C5: when every block has finished (its engine run completed or timed out)
\* and no factor was verified, the run has returned with the NotFound report;
\* and NotFound is reported in no other case.
C5_NotFound ==
    /\ (/\ pc \in {"loop", "done", "crashed"}
        /\ Len(launched) = Len(Batches(num_chunks))
        /\ last_run \in {"timeout", "exit0", "exit1"}
        /\ factor = 0)
       => (pc = "done" /\ report = "notfound")
    /\ report = "notfound" =>
        (pc = "done" /\ factor = 0 /\ Len(launched) = Len(Batches(num_chunks)))

\* C5 witness: two blocks, the first timed out, the second found nothing
C5_Witness ==
    /\ report = "notfound"
    /\ Len(launched) = 2
    /\ timed_out = {0}
    /\ last_run = "exit0"
    /\ Len(checked) > 0

\* C6 as stated: after a worker failure (timeout, engine missing) the run goes
\* on to the next block, or has ended normally after the last one.
C6_FailureStaysLocal ==
    last_run \in {"timeout", "missing"} =>
        \/ pc = "loop"
        \/ pc = "done" /\ Len(launched) = Len(Batches(num_chunks))

\* C7: the verdict of the Verifier on (N, c) is yes exactly when 1 < c < N
\* and N mod c = 0; yes for (143, 11), (143, 13), (21, 3), no for (143, 12)
\* and (21, 1).
C7_IsFactor ==
    v_res # "none" =>
        /\ (v_res = "yes") <=> (1 < v_c /\ v_c < v_n /\ v_n % v_c = 0)
        /\ (v_n = 143 /\ v_c \in {11, 13}) => v_res = "yes"
        /\ (v_n = 21 /\ v_c = 3) => v_res = "yes"
        /\ (v_n = 143 /\ v_c = 12) => v_res = "no"
        /\ (v_n = 21 /\ v_c = 1) => v_res = "no"

\* C7 witness: 11 verified as a factor of 143
C7_Witness == v_res = "yes" /\ v_n = 143 /\ v_c = 11

\* the chunk index and value a measurement line reports, written as MeasLine
\* writes it or, as int() and strip() also read it, as SeparatedLine does;
\* <<>> for any other line
ReportTable ==
    [l \in EngineLines |->
        IF \E c \in 0..9, v \in 0..9 : l = MeasLine(c, v)
        THEN CHOOSE r \in (0..9) \X (0..9) : l = MeasLine(r[1], r[2])
        ELSE IF \E c \in 0..9, v \in 0..9 : l = SeparatedLine(c, v)
        THEN CHOOSE r \in (0..9) \X (0..9) : l = SeparatedLine(r[1], r[2])
        ELSE <<>>]

RECURSIVE ExpectedChecked(_, _, _, _)
\* v + (bs + i) * chunk_states for the measurement reports (i, v) of the lines
\* k.., in order, up to the first that verifies
ExpectedChecked(lines, k, bs, n) ==
    IF k > Len(lines) THEN <<>>
    ELSE IF ReportTable[lines[k]] = <<>> THEN ExpectedChecked(lines, k + 1, bs, n)
    ELSE LET cand == ReportTable[lines[k]][2]
                     + (bs + ReportTable[lines[k]][1]) * chunk_states
         IN  IF 1 < cand /\ BigCmp(FromInt(cand), n) < 0 /\ BigMod(n, cand) = 0
             THEN <<cand>>
             ELSE <<cand>> \o ExpectedChecked(lines, k + 1, bs, n)

\* C8: the candidates handed to the Verifier for an output are, in order,
\* v + (blockStart + i) * chunkStates for its measurement lines (i, v).
C8_Recombination ==
    last_run \in {"exit0", "exit1"} =>
        checked = ExpectedChecked(output, 1, LastBatch.start, n_val)

\* C8 witness: chunk 1 of the block that starts at chunk 1000 reports 7
C8_Witness ==
    /\ last_run = "exit0"
    /\ LastBatch.start = BATCH_SIZE
    /\ output = <<MeasLine(1, 7)>>
    /\ checked = <<7 + (BATCH_SIZE + 1) * chunk_states>>

\* the fields an encoder was given: the args not passed are 0
FieldOf(j) == IF j <= e_len THEN e_args[j] ELSE 0

\* the four fields as little-endian 16-bit values, opcode first
Canonical(opcode, target, op1, op2) ==
    <<opcode % 256, opcode \div 256, target % 256, target \div 256,
      op1 % 256, op1 \div 256, op2 % 256, op2 \div 256>>

InRange(x) == 0 <= x /\ x <= 65535

\* C9: for fields in 0..65535 each encoder yields the canonical 8-byte word;
\* INIT (0x01) with target 5 and depth 3 gives 01 00 05 00 03 00 00 00.
C9_CanonicalWord ==
    (e_by # "none" /\ InRange(e_opcode) /\ \A j \in 1..3 : InRange(FieldOf(j))) =>
        /\ e_out.ok
        /\ e_out.bytes = Canonical(e_opcode, FieldOf(1), FieldOf(2), FieldOf(3))
        /\ (e_opcode = 1 /\ FieldOf(1) = 5 /\ FieldOf(2) = 3 /\ FieldOf(3) = 0) =>
            e_out.bytes = <<1, 0, 5, 0, 3, 0, 0, 0>>

\* C9 witness: make_instr(OP_INIT, target=5, op1=3)
C9_Witness ==
    /\ e_by = "make_instr"
    /\ e_opcode = 1
    /\ e_args = <<5, 3, 0>>
    /\ e_out = [ok |-> TRUE, bytes |-> <<1, 0, 5, 0, 3, 0, 0, 0>>]

\* C10 as stated: every encoder masks each field to 16 bits and never
\* throws.
C10_MasksAndNeverThrows ==
    e_by # "none" =>
        /\ e_out.ok
        /\ e_out.bytes = Canonical(e_opcode % 65536, FieldOf(1) % 65536,
                                   FieldOf(2) % 65536, FieldOf(3) % 65536)

\* C10 amended: only Instruction.to_bytes masks every field to 16 bits and
\* never throws.  pack_instruction throws exactly when a field is above
\* 65535 and masks nothing.  make_instr masks nothing: for fields below 2^32
\* the bits of a field above bit 15 are or-ed into the next field, and it
\* throws exactly when op2 is above 65535.
C10_PerEncoder ==
    /\ e_by = "to_bytes" =>
        /\ e_out.ok
        /\ e_out.bytes = Canonical(e_opcode % 65536, FieldOf(1) % 65536,
                                   FieldOf(2) % 65536, FieldOf(3) % 65536)
    /\ e_by = "pack_instruction" =>
        /\ e_out.ok <=> (InRange(e_opcode) /\ \A j \in 1..3 : InRange(FieldOf(j)))
        /\ e_out.ok =>
            e_out.bytes = Canonical(e_opcode, FieldOf(1), FieldOf(2), FieldOf(3))
    /\ e_by = "make_instr" =>
        /\ e_out.ok <=> FieldOf(3) <= 65535
        /\ e_out.ok =>
            e_out.bytes =
                Canonical(e_opcode % 65536,
                          BitOr(FieldOf(1) % 65536, e_opcode \div 65536),
                          BitOr(FieldOf(2) % 65536, FieldOf(1) \div 65536),
                          BitOr(FieldOf(3) % 65536, FieldOf(2) \div 65536))

\* C10 witness: make_instr with target 65536 sets bit 0 of the op1 field, and
\* pack_instruction throws on the same input
C10_Witness ==
    /\ e_by = "make_instr"
    /\ e_opcode = 1
    /\ e_args = <<65536, 0, 0>>
    /\ e_out = [ok |-> TRUE, bytes |-> <<1, 0, 0, 0, 1, 0, 0, 0>>]
    /\ ~pack_instruction(1, 65536, 0, 0).ok

\* C16 as stated: each engine run of a call is given a program file of its
\* own name, and once the call has ended (returned or raised) no program
\* file is left.
C16_FileUniqueAndRemoved ==
    /\ \A i, j \in 1..Len(written) : i # j => written[i] # written[j]
    /\ pc \in {"done", "crashed"} => files = {}

\* C17: when an engine run times out its process has been killed, the batch
\* is recorded as timed out, and nothing the process printed is parsed: no
\* candidate is verified, no result is set and result.stdout is not taken.
C17_TimeoutKillsAndSkips ==
    /\ [](last_run = "timeout" =>
            /\ proc = "killed"
            /\ LastBatch.start \in timed_out
            /\ checked = <<>>
            /\ report # "success"
            /\ factor = 0)
    /\ [][last_run' = "timeout" /\ launched' # launched =>
            output' = output /\ factor' = factor /\ cofactor' = cofactor]_vars

\* C17 witness: the engine printed a measurement of the factor 3 of 21 and
\* then ran into the timeout; the run ends with no factor found
C17_Witness ==
    /\ last_run = "timeout"
    /\ n_val = FromInt(21)
    /\ printed = <<MeasLine(0, 3)>>
    /\ proc = "killed"
    /\ report = "notfound"

\* a line is recognized when it is a measurement report or a factor report
Recognized(l) == ReportTable[l] # <<>> \/ \E f \in 1..15 : l = FactorLine(f)

\* C18 as stated: an engine run that exits with a non-zero code and prints
\* no recognizable line ends as ExecutionFailed, not as a search that
\* completed and found no factor.
C18_ExecutionFailed ==
    (/\ last_run = "exit1"
     /\ \A k \in 1..Len(output) : ~Recognized(output[k]))
    => (report = "failed" /\ report # "notfound")

\* the lines of an output that are recognized, in order
RecognizedOnly(lines) == SelectSeq(lines, Recognized)

\* C19: a completed engine run never raises in the parser, and the lines of
\* its output that are neither a measurement report nor a factor report
\* (malformed measurement lines included) change nothing: the candidates
\* verified and the result are those of the output with these lines removed.
C19_OtherLinesSkipped ==
    last_run \in {"exit0", "exit1"} =>
        /\ pc # "crashed"
        /\ checked = ScanOutput(RecognizedOnly(output), 1, LastBatch.start, n_val,
                                <<>>).checked
        /\ (report = "success") =
            ScanOutput(RecognizedOnly(output), 1, LastBatch.start, n_val, <<>>).found

\* C19 witness: a malformed measurement line comes before the report of the
\* factor 3 of 21
C19_Witness ==
    /\ last_run = "exit0"
    /\ n_val = FromInt(21)
    /\ output = <<BadChunkLine, MeasLine(0, 3)>>
    /\ checked = <<3>>
    /\ report = "success"

\* the candidate of a measurement report l in the batch that starts at bs
CandidateOf(l, bs) == ReportTable[l][2] + (bs + ReportTable[l][1]) * chunk_states

\* line k of the output is a measurement report and no report before it
\* verifies
Forwarded(k) ==
    /\ ReportTable[output[k]] # <<>>
    /\ \A j \in 1..(k - 1) :
        ReportTable[output[j]] # <<>> =>
            ~(/\ 1 < CandidateOf(output[j], LastBatch.start)
              /\ BigCmp(FromInt(CandidateOf(output[j], LastBatch.start)), n_val) < 0
              /\ BigMod(n_val, CandidateOf(output[j], LastBatch.start)) = 0)

\* C20: every measurement report of an output up to the first that verifies
\* is verified once per occurrence, in output order: the r-th such line is
\* the r-th candidate verified, whether or not its chunk index or value
\* occurred before.
C20_EveryReportForwarded ==
    last_run \in {"exit0", "exit1"} =>
        /\ Len(checked) = Cardinality({k \in 1..Len(output) : Forwarded(k)})
        /\ \A k \in 1..Len(output) :
            Forwarded(k) =>
                checked[Cardinality({j \in 1..k : Forwarded(j)})]
                    = CandidateOf(output[k], LastBatch.start)

\* C20 witness: the same report twice; its candidate is verified twice
C20_Witness ==
    /\ last_run = "exit0"
    /\ output = <<MeasLine(1, 7), MeasLine(1, 7)>>
    /\ checked = <<7 + chunk_states, 7 + chunk_states>>

\* field f (0 opcode, 1 target, 2 op1, 3 op2) of word i of a program in the
\* layout of 16-bit little-endian fields
FieldAt(bytes, i, f) ==
    bytes[8 * (i - 1) + 2 * f + 1] + 256 * bytes[8 * (i - 1) + 2 * f + 2]

\* the words of a program whose opcode is op
WordsWith(bytes, op) == {i \in 1..(Len(bytes) \div 8) : FieldAt(bytes, i, 0) = op}

\* C11: the program written for the engine is a whole number of 8-byte
\* words, 8 bytes for each instruction emitted; its last word is HALT and no
\* word before the last is HALT.  While it is built the program holds 8 bytes
\* for each instruction emitted so far.
C11_WholeWordsHaltLast ==
    /\ Len(b_program) = 8 * b_count
    /\ b_pc = "written" =>
        /\ b_file = b_program
        /\ Len(b_file) % 8 = 0
        /\ Len(b_file) = 8 * b_count
        /\ b_count >= 1
        /\ WordsWith(b_file, OP_HALT) = {b_count}

\* C11 witness: the program of a batch of 3 chunks, 79 words, is written
C11_Witness ==
    /\ b_pc = "written"
    /\ b_batch.end - b_batch.start = 3
    /\ Len(b_file) = 632

\* C12: the program of a block with A active chunks holds exactly one
\* INIT(c, chunk_depth) and exactly one MEASURE(c) for each local chunk c in
\* 0..A-1, and no other INIT or MEASURE.
C12_OneInitOneMeasure ==
    b_pc = "written" =>
        /\ Cardinality(WordsWith(b_file, OP_INIT)) = b_batch.end - b_batch.start
        /\ Cardinality(WordsWith(b_file, OP_MEASURE)) = b_batch.end - b_batch.start
        /\ \A c \in 0..(b_batch.end - b_batch.start - 1) :
            /\ \E i \in WordsWith(b_file, OP_INIT) :
                /\ FieldAt(b_file, i, 1) = c
                /\ FieldAt(b_file, i, 2) = chunk_depth
                /\ FieldAt(b_file, i, 3) = 0
            /\ \E i \in WordsWith(b_file, OP_MEASURE) :
                /\ FieldAt(b_file, i, 1) = c
                /\ FieldAt(b_file, i, 2) = 0
                /\ FieldAt(b_file, i, 3) = 0

\* C12 witness: the second batch of a run, of 2 chunks, is written
C12_Witness ==
    /\ b_pc = "written"
    /\ b_batch = [start |-> BATCH_SIZE, end |-> BATCH_SIZE + 2]
    /\ Cardinality(WordsWith(b_file, OP_MEASURE)) = 2

\* the words that run the divisor oracle
DivisorWords(bytes) ==
    {i \in WordsWith(bytes, OP_ORACLE) : FieldAt(bytes, i, 2) = ID_DIVISOR}

\* the words before word i that store to slot 1 with opcode op
OffsetStores(bytes, i, op) ==
    {j \in WordsWith(bytes, op) : j < i /\ FieldAt(bytes, j, 1) = 1}

\* the last of them
LastStore(bytes, i, op) ==
    CHOOSE j \in OffsetStores(bytes, i, op) :
        \A h \in OffsetStores(bytes, i, op) : h <= j

\* The four 16-bit halves slot 1 holds when word i executes, the engine
\* running the words in order: the fields of the last STORE_LO and of the
\* last STORE_HI to slot 1 before i
OffsetRegister(bytes, i) ==
    <<FieldAt(bytes, LastStore(bytes, i, OP_STORE_LO), 2),
      FieldAt(bytes, LastStore(bytes, i, OP_STORE_LO), 3),
      FieldAt(bytes, LastStore(bytes, i, OP_STORE_HI), 2),
      FieldAt(bytes, LastStore(bytes, i, OP_STORE_HI), 3)>>

\* the halves of an offset below 2^31
HalvesOf(offset) == <<offset % 65536, offset \div 65536, 0, 0>>

\* C13: the program runs the divisor oracle iters * A times; the r-th run is
\* on chunk (r - 1) mod A, so that each round visits every active chunk once
\* in ascending order; the two words before it store the global offset
\* (batch_start + c) * chunk_states of its chunk c to slot 1, the word after
\* it is the diffusion oracle on c; and slot 1 holds that offset when it
\* executes.
C13_OffsetBeforeOracle ==
    b_pc = "written" =>
        /\ Cardinality(DivisorWords(b_file)) = iters * (b_batch.end - b_batch.start)
        /\ \A i \in DivisorWords(b_file) :
            /\ FieldAt(b_file, i, 1) =
                (Cardinality({j \in DivisorWords(b_file) : j < i}))
                    % (b_batch.end - b_batch.start)
            /\ i > 2
            /\ FieldAt(b_file, i - 2, 0) = OP_STORE_LO
            /\ FieldAt(b_file, i - 2, 1) = 1
            /\ FieldAt(b_file, i - 1, 0) = OP_STORE_HI
            /\ FieldAt(b_file, i - 1, 1) = 1
            /\ <<FieldAt(b_file, i - 2, 2), FieldAt(b_file, i - 2, 3),
                 FieldAt(b_file, i - 1, 2), FieldAt(b_file, i - 1, 3)>>
               = HalvesOf((b_batch.start + FieldAt(b_file, i, 1)) * chunk_states)
            /\ FieldAt(b_file, i + 1, 0) = OP_ORACLE
            /\ FieldAt(b_file, i + 1, 1) = FieldAt(b_file, i, 1)
            /\ FieldAt(b_file, i + 1, 2) = ID_NEURAL_DIFF
            /\ OffsetRegister(b_file, i)
               = HalvesOf((b_batch.start + FieldAt(b_file, i, 1)) * chunk_states)

\* C13 witness: the program of chunks 1000 and 1001 of a run is written; its
\* last divisor oracle is on local chunk 1 with offset 1001 * 81 = 81081
C13_Witness ==
    /\ b_pc = "written"
    /\ b_batch = [start |-> BATCH_SIZE, end |-> BATCH_SIZE + 2]
    /\ Cardinality(DivisorWords(b_file)) = 10
    /\ \E i \in DivisorWords(b_file) :
        /\ FieldAt(b_file, i, 1) = 1
        /\ OffsetRegister(b_file, i) = <<15545, 1, 0, 0>>

\* the number whose 16-bit halves, least significant first, are the op1 and
\* op2 fields of the STORE_LO word and of the STORE_HI word
Reassembled(words) ==
    Normalize(SubSeq(words[1].bytes, 5, 8) \o SubSeq(words[2].bytes, 5, 8))

\* C14 as stated: the halves of the STORE_LO / STORE_HI words emitted for the
\* modulus, reassembled in limb order, give back N, for N of any length.
C14_ModulusExact ==
    s_words # <<>> =>
        /\ \A j \in 1..Len(s_words) : s_words[j].ok
        /\ Reassembled(s_words) = s_n

\* C15 as stated: when the chunk count requested for a program exceeds the
\* chunk limit of the engine, no program file is written and no engine is
\* launched, and the request ends with SizeExceeded.
C15_SizeExceeded ==
    (g_pc # "idle" /\ g_chunks > g_limit) =>
        /\ g_tmp = "none"
        /\ ~g_launched
        /\ g_pc \in {"done", "crashed"} => g_log = "size_exceeded"

(***************************************************************************)
(* The life of one batch's task                                            *)
(***************************************************************************)
\* the steps a task may take
TaskSteps ==
    {<<"idle", "dispatched">>, <<"dispatched", "running">>, <<"dispatched", "raised">>,
     <<"running", "returned">>, <<"running", "continued">>, <<"running", "ended">>,
     <<"running", "raised">>}

\* the engine process of batch i has exited or was killed at the timeout
EngineOver(i) ==
    /\ i <= Len(launched)
    /\ i = Len(launched) => proc \in {"exited", "killed"}

\* the outcomes of the task of batch i as the run shows them: the factor it
\* found is the result, its timeout was warned of, its output was parsed to
\* the end with no candidate verified
Succeeded(i) == i = Len(launched) /\ report = "success" /\ factor # 0

TimedOut(i) == i <= Len(launched) /\ launched[i].start \in timed_out

Failed(i) == tasks[i] = "ended"

OutcomesOf(i) ==
    {o \in {"Succeeded", "Failed", "TimedOut"} :
        \/ o = "Succeeded" /\ Succeeded(i)
        \/ o = "Failed" /\ Failed(i)
        \/ o = "TimedOut" /\ TimedOut(i)}

\* C21 as stated: the task of each batch goes from idle to dispatched to
\* running and then to its end, in that order and one step at a time (an
\* exception that leaves solve_distributed ends it as "raised", which is
\* none of the three outcomes); it never has two
\* of the outcomes Succeeded, Failed, TimedOut, has none before its engine
\* run is over, and has exactly one (Succeeded when it returned, TimedOut
\* when it continued after the timeout, Failed when it ended with nothing)
\* once its engine process has exited or was killed.
C21_TaskLifecycle ==
    /\ [][\A i \in 1..Len(tasks) :
            tasks'[i] # tasks[i] => <<tasks[i], tasks'[i]>> \in TaskSteps]_vars
    /\ [](\A i \in 1..Len(tasks) :
            /\ Cardinality(OutcomesOf(i)) <= 1
            /\ tasks[i] \in {"idle", "dispatched", "running", "raised"} => OutcomesOf(i) = {}
            /\ EngineOver(i) =>
                /\ Cardinality(OutcomesOf(i)) = 1
                /\ Succeeded(i) = (tasks[i] = "returned")
                /\ TimedOut(i) = (tasks[i] = "continued"))

(***************************************************************************)
(* The two word layouts                                                    *)
(***************************************************************************)
\* both encoders were applied to the instruction, its opcode is below 256
\* and make_instr returned a word
BothLayouts ==
    /\ e_by = "make_instr"
    /\ e_len = 3
    /\ e_alt # <<>>
    /\ e_opcode < 256
    /\ e_out.ok

\* C22 as stated: for an opcode below 256 the words of make_instr and
\* pack_instr are the same only when target = 0 and op2 = 0, and differ for
\* every non-zero target.
C22_SameOnlyForZeroTarget ==
    BothLayouts =>
        /\ e_out.bytes = e_alt => (e_args[1] = 0 /\ e_args[3] = 0)
        /\ e_args[1] # 0 => e_out.bytes # e_alt

\* C22 amended: for an opcode below 256 the two words differ whenever the
\* target is not a multiple of 2^24, so for every non-zero target the 24-bit
\* field of pack_instr can hold; and when target, op1 and op2 are within
\* 0..65535 the two words are the same exactly when target = 0 and op2 = 0.
C22_LayoutsDiffer ==
    BothLayouts =>
        /\ e_args[1] % 16777216 # 0 => e_out.bytes # e_alt
        /\ (\A j \in 1..3 : InRange(e_args[j])) =>
            ((e_out.bytes = e_alt) <=> (e_args[1] = 0 /\ e_args[3] = 0))

\* C22 witness: the words of (opcode 1, target 5, op1 3) differ, and those of
\* (opcode 255, target 0, op1 65535) are the same
C22_Witness ==
    /\ BothLayouts
    /\ \/ /\ e_opcode = 1 /\ e_args = <<5, 3, 0>>
          /\ e_out.bytes = <<1, 0, 5, 0, 3, 0, 0, 0>>
          /\ e_alt = <<1, 5, 0, 0, 3, 0, 0, 0>>
       \/ /\ e_opcode = 255 /\ e_args = <<0, 65535, 0>>
          /\ e_out.bytes = e_alt

(***************************************************************************)
(* More on the program of one batch                                        *)
(***************************************************************************)
\* C24: at every point of the build, and in the program written, every
\* MEASURE word comes after every ORACLE word: no measurement, so none that
\* writes slot 1 or slot 2, executes before the last oracle has run.  The
\* program written holds a MEASURE word and an ORACLE word for each chunk.
C24_MeasureAfterLastOracle ==
    /\ \A i \in WordsWith(b_program, OP_MEASURE), j \in WordsWith(b_program, OP_ORACLE) :
        j < i
    /\ b_pc = "written" =>
        /\ \A c \in 0..(b_batch.end - b_batch.start - 1) :
            /\ \E i \in WordsWith(b_file, OP_MEASURE) : FieldAt(b_file, i, 1) = c
            /\ \E j \in WordsWith(b_file, OP_ORACLE) : FieldAt(b_file, j, 1) = c
        /\ \A i \in WordsWith(b_file, OP_MEASURE), j \in WordsWith(b_file, OP_ORACLE) :
            j < i

\* C24 witness: a batch of 3 chunks is written, so that chunk 1 and chunk 2
\* are measured into the slots of the offset and of the modulus
C24_Witness ==
    /\ b_pc = "written"
    /\ b_batch.end - b_batch.start = 3
    /\ \E i \in WordsWith(b_file, OP_MEASURE) : FieldAt(b_file, i, 1) = 2
    /\ \E i \in WordsWith(b_file, OP_MEASURE) : FieldAt(b_file, i, 1) = 1

\* the number whose four 16-bit halves are h, the lowest first
PairValue(h) ==
    Normalize(<<h[1] % 256, h[1] \div 256, h[2] % 256, h[2] \div 256,
                h[3] % 256, h[3] \div 256, h[4] % 256, h[4] \div 256>>)

\* the number the store pair before the oracle word i of the chunk's words
\* encodes
StoredOffset(i) == PairValue(OffsetRegister(o_words, i))

\* C25 as stated: for every N, every batch and every local chunk index c,
\* the offset the STORE_LO/STORE_HI pair before chunk c's oracle encodes is
\* the global offset (batch_start + c) * chunk_states the parser adds to a
\* value measured on chunk c.
C25_BuilderAndParserAgree ==
    o_pc = "parsed" =>
        \A i \in WordsWith(o_words, OP_ORACLE) :
            /\ FieldAt(o_words, i, 1) = o_c
            /\ StoredOffset(i) = o_global

\* C25 amended: the pair before chunk c's oracle encodes the low 64 bits of
\* the global offset the parser adds, the parser's candidate being that
\* global offset plus the measured value; so the two offsets are equal when
\* (batch_start + c) * chunk_states < 2^64 and differ, by the multiple of
\* 2^64 the pair drops, when it is 2^64 or more.
C25_AgreeBelow64Bits ==
    o_pc = "parsed" =>
        /\ o_global = BigMul(BigAdd(o_start, FromInt(o_c)), chunk_states)
        /\ o_candidate = BigAdd(o_global, FromInt(o_val))
        /\ \A i \in WordsWith(o_words, OP_ORACLE) :
            /\ FieldAt(o_words, i, 1) = o_c
            /\ Len(StoredOffset(i)) <= 8
            /\ BigAdd(StoredOffset(i), Shl(Shr(o_global, 64), 64)) = o_global
            /\ BitLen(o_global) <= 64 => StoredOffset(i) = o_global
            /\ BitLen(o_global) > 64 => StoredOffset(i) # o_global

\* C25 witness: the chunk is the last one whose offset is below 2^64, in a
\* batch far from 0: both halves of the STORE_HI word are not 0, the pair
\* encodes what the parser adds, and the candidate of the value 80 is 80 more
C25_Witness ==
    /\ o_pc = "parsed"
    /\ BigAdd(o_start, FromInt(o_c)) = EdgeChunk(64)
    /\ o_val = chunk_states - 1
    /\ \E i \in DivisorWords(o_words) :
        /\ OffsetRegister(o_words, i)[3] # 0
        /\ OffsetRegister(o_words, i)[4] # 0
        /\ StoredOffset(i) = o_global
        /\ o_candidate = BigAdd(StoredOffset(i), FromInt(chunk_states - 1))

\* the opcodes whose target is a chunk
ChunkOpcodes == {OP_INIT, OP_ORACLE, OP_MEASURE}

\* C27: no make_instr call of the build fails; the opcode, target, op1 and
\* op2 of every call are within 0..65535 and are the four 16-bit fields of
\* the word emitted, so that no field runs into another; the target of a
\* chunk instruction is below the number of active chunks, which is at most
\* BATCH_SIZE in every batch of the run.
C27_FieldsInRange ==
    /\ b_pc # "crashed"
    /\ Len(b_instrs) = b_count
    /\ \A b \in BatchesOf(b_n) : 0 < b.end - b.start /\ b.end - b.start <= BATCH_SIZE
    /\ \A j \in 1..Len(b_instrs) :
        /\ \A f \in 1..4 : InRange(b_instrs[j][f])
        /\ SubSeq(b_program, 8 * j - 7, 8 * j)
           = Canonical(b_instrs[j][1], b_instrs[j][2], b_instrs[j][3], b_instrs[j][4])
        /\ b_instrs[j][1] \in ChunkOpcodes =>
            (b_instrs[j][2] < b_batch.end - b_batch.start /\ b_instrs[j][2] < BATCH_SIZE)

\* C27 witness: the program of a modulus of 5 bytes is written: its halves
\* 0 and 1 are 16-bit values and half 2 is not 0
C27_Witness ==
    /\ b_pc = "written"
    /\ Len(b_n) = 5
    /\ \E j \in 1..Len(b_instrs) :
        /\ b_instrs[j][1] = OP_STORE_HI
        /\ b_instrs[j][2] = 2
        /\ b_instrs[j][3] # 0
    /\ \E j \in 1..Len(b_instrs) :
        /\ b_instrs[j][1] = OP_STORE_LO
        /\ b_instrs[j][2] = 2
        /\ b_instrs[j][3] > 255

(***************************************************************************)
(* The program and the run button of the GUI                               *)
(***************************************************************************)
RECURSIVE PartsValue(_)
\* the bytes of sum over the parts of (op1 + op2 * 2^16) * 2^(32 * target),
\* the parts being in the order of their targets 0, 1, ...
PartsValue(parts) ==
    IF parts = <<>> THEN <<>>
    ELSE SubSeq(parts[1].bytes, 5, 8) \o PartsValue(Tail(parts))

\* C28: the OP_LOAD_N_PART words generate_qbin emits for n > 0 are packed
\* without error, there is at least one, the j-th has target j - 1, their
\* op1 and op2 fields reassemble to n, and the last part is not 0.
C28_PartsReassemble ==
    g_tmp # "none" =>
        /\ Len(g_parts) >= 1
        /\ 4 * (Len(g_parts) - 1) < Len(g_n)
        /\ \A j \in 1..Len(g_parts) :
            /\ g_parts[j].ok
            /\ FieldAt(g_parts[j].bytes, 1, 0) = OP_LOAD_N_PART
            /\ FieldAt(g_parts[j].bytes, 1, 1) = j - 1
        /\ Normalize(PartsValue(g_parts)) = g_n
        /\ SubSeq(g_parts[Len(g_parts)].bytes, 5, 8) # <<0, 0, 0, 0>>

\* C28 witness: 2^64 + 1 is loaded in three parts 1, 0, 1
C28_Witness ==
    /\ g_tmp # "none"
    /\ g_n = <<1, 0, 0, 0, 0, 0, 0, 0, 1>>
    /\ Len(g_parts) = 3
    /\ SubSeq(g_parts[2].bytes, 3, 8) = <<1, 0, 0, 0, 0, 0>>
    /\ SubSeq(g_parts[3].bytes, 3, 8) = <<2, 0, 1, 0, 0, 0>>

\* C29 as stated, for finite runs: once the execute_engine thread has ended,
\* on whatever path, and no callback is pending, the run button is enabled
\* again.
C29_ButtonReenabled ==
    (g_pc \in {"done", "crashed"} /\ ~g_after) => g_btn = "normal"

(***************************************************************************)
(* The searched range and floor(sqrt(N))                                   *)
(***************************************************************************)
\* C26 as stated: for a composite N >= 4 the floor of the square root of N
\* lies in the searched range, the union [0, num_chunks * chunk_states) of
\* the blocks solve_distributed generates, also when N is a perfect square.
C26_RootInRange ==
    q_pc # "init" =>
        /\ q_pc = "loop"
        /\ BigCmp(BigIsqrt(q_n), BigMul(q_chunks, chunk_states)) < 0

(***************************************************************************)
(* What shor_factor returns                                                *)
(***************************************************************************)
\* the least d >= 2 that divides x
LeastFactor(x) == CHOOSE d \in 2..x : x % d = 0 /\ \A e \in 2..(d - 1) : x % e # 0

\* N = p * q for primes p, q, one of them 2 or a listed small prime: decided
\* for N below 2^12, and known of three times the huge prime
ListedSemiprime(n) ==
    IF Len(n) <= 3
    THEN /\ ToInt(n) >= 4
         /\ ~IsPrime(ToInt(n))
         /\ LeastFactor(ToInt(n)) <= 47
         /\ IsPrime(ToInt(n) \div LeastFactor(ToInt(n)))
    ELSE n = ThreeHugePrime

\* C23 as stated: for a semiprime N = p * q with a prime factor that is 2 or
\* a listed small prime, shor_factor returns the pair of p and q, the same
\* on every run (the listed factor first, its cofactor second), and starts
\* no engine run.
C23_TrivialFactorsReturned ==
    (f_pc # "start" /\ ListedSemiprime(f_n)) =>
        /\ f_pc = "done"
        /\ f_ret = "pair"
        /\ f_engine = 0
        /\ f_p \in {2} \cup {small_primes[j] : j \in 1..Len(small_primes)}
        /\ BigMod(f_n, f_p) = 0
        /\ f_q = BigFloorDiv(f_n, f_p)
        /\ BigMul(f_q, f_p) = f_n
        /\ Len(f_n) <= 3 => f_p = LeastFactor(ToInt(f_n))

\* C30 as stated: when shor_factor returns a pair (p, q), p * q = N and
\* 1 < p < N and 1 < q < N.
C30_ReturnedPairIsProper ==
    f_ret = "pair" =>
        /\ BigMul(f_q, f_p) = f_n
        /\ 1 < f_p
        /\ BigCmp(FromInt(f_p), f_n) < 0
        /\ BigCmp(<<1>>, f_q) < 0
        /\ BigCmp(f_q, f_n) < 0
====
